---- MODULE Spec2Model ----
(***************************************************************************)
(* State-machine model of the ashengine physics core:                      *)
(*   - MemoryAllocator      (engine/src/memory/mod.rs)                     *)
(*   - MemoryPool/BufferPool (engine/src/physics/memory.rs)                *)
(*   - GpuPhysicsSystem     (engine/src/physics/gpu_physics.rs)            *)
(*   - PhysicsBridgeSystem  (engine/src/ecs/system/physics_bridge.rs)      *)
(*   - SpatialHash, ParallelBroadPhase (engine/src/physics/spatial.rs)     *)
(*   - detect_collision     (engine/src/physics/collision.rs)              *)
(*   - PhysicsWorld         (engine/src/physics/physics.rs)                *)
(*   - ConstraintSolver, IslandSolver (engine/src/physics/solver.rs)       *)
(*   - SystemScheduler      (engine/src/ecs/system/mod.rs)                 *)
(* Each subsystem has its own specification; the variables of the          *)
(* subsystems it does not exercise stay at their initial values in it.     *)
(***************************************************************************)
EXTENDS Integers, Sequences, FiniteSets, TLC

VARIABLES
    \* ---- MemoryAllocator (memory/mod.rs) ----
    chunks,        \* memory_type_index -> sequence of MemoryChunk
    live,          \* the MemoryBlocks handed out by allocate and not yet freed
    nextMemory,    \* the next vk::DeviceMemory handle the device hands out
    lastAlloc,     \* what the last allocate/free call did and returned
    \* ---- MemoryPool (physics/memory.rs) ----
    pool,          \* the MemoryPool: blocks, free_blocks, total_size, used_size, block_size
    device,        \* device side: the size of every vk::DeviceMemory allocated, by handle
    held,          \* the (memory, offset) pairs handed out by allocate and not yet freed
    lastPool,      \* what the last MemoryPool call did and returned
    \* ---- GpuPhysicsSystem (physics/gpu_physics.rs) over its BufferPool ----
    gpu,           \* the GpuPhysicsSystem's fields
    vk,            \* device side: buffer objects, mapped and freed memory
    sim,           \* the two buffer halves' contents and the dispatch in flight
    lastGpu,       \* what the last GpuPhysicsSystem call did and returned
    \* ---- World (ecs/world.rs) and PhysicsBridgeSystem (ecs/system/physics_bridge.rs) ----
    ecs,           \* the World: entities, the component vectors, next_entity_id
    bridge,        \* the PhysicsBridgeSystem: particles, frame_count
    lastBridge,    \* what the last PhysicsBridgeSystem::update did
    \* ---- SpatialHash and ParallelBroadPhase (physics/spatial.rs) ----
    sh,            \* the SpatialHash: cell_size, grid, object_cells, total_objects, cells_used
    boxes,         \* the bounds every index was last inserted with since the last clear
    par,           \* the parallel insertion pass of ParallelBroadPhase::update in progress
    lastSpatial,   \* what the last SpatialHash / ParallelBroadPhase call did
    \* ---- detect_collision (physics/collision.rs) ----
    narrow,        \* the last detect_collision call: its two objects and its result
    \* ---- PhysicsWorld (physics/physics.rs, solver.rs, constraints.rs) ----
    pw,            \* the PhysicsWorld: objects, gravity, constraints, num_iterations, substeps
    registered,    \* the constraints passed to add_constraint, in the order of the calls
    lastWorld,     \* what the last PhysicsWorld / solver call did
    solver,        \* the IslandSolver inside build_islands: visited, the traversals, the islands pushed
    \* ---- SystemScheduler (ecs/system/mod.rs) ----
    scheduler,     \* the SystemScheduler: systems, each with its SystemConfig
    lastSchedule   \* what the last SystemScheduler call did

allocVars == <<chunks, live, nextMemory, lastAlloc>>

poolVars == <<pool, device, held, lastPool>>

gpuVars == <<gpu, vk, sim, lastGpu>>

bridgeVars == <<ecs, bridge, lastBridge>>

spatialVars == <<sh, boxes, par, lastSpatial>>

worldVars == <<pw, registered, lastWorld>>

schedulerVars == <<scheduler, lastSchedule>>

islandVars == <<solver>>

cpuVars == <<spatialVars, narrow, worldVars, schedulerVars, islandVars>>

vars == <<allocVars, poolVars, gpuVars, bridgeVars, cpuVars>>

\* what an operation of one subsystem leaves alone
notAlloc == <<poolVars, gpuVars, bridgeVars, cpuVars>>

notPool == <<allocVars, gpuVars, bridgeVars, cpuVars>>

notGpu == <<allocVars, held, lastPool, bridgeVars, cpuVars>>

notBridge == <<allocVars, poolVars, vk, cpuVars>>

gpuSide == <<allocVars, poolVars, gpuVars, bridgeVars>>

notSpatial == <<gpuSide, narrow, worldVars, schedulerVars, islandVars>>

notCollision == <<gpuSide, spatialVars, worldVars, schedulerVars, islandVars>>

notWorld == <<gpuSide, spatialVars, narrow, schedulerVars, islandVars>>

notScheduler == <<gpuSide, spatialVars, narrow, worldVars, islandVars>>

notIslands == <<gpuSide, spatialVars, narrow, worldVars, schedulerVars>>

\* ------------------------------------------------------------------------
\* Generic helpers
\* ------------------------------------------------------------------------

Max(a, b) == IF a >= b THEN a ELSE b

Min(a, b) == IF a <= b THEN a ELSE b

RECURSIVE SumSeq(_)
SumSeq(s) == IF s = <<>> THEN 0 ELSE Head(s) + SumSeq(Tail(s))

\* s without its element at position i (Vec::remove)
RemoveAt(s, i) == SubSeq(s, 1, i - 1) \o SubSeq(s, i + 1, Len(s))

\* ------------------------------------------------------------------------
\* MemoryAllocator
\* ------------------------------------------------------------------------

\* bounds of the model
MaxChunks == 2
MaxLive == 3
MaxRegions == 3
MaxOffset == 70

\* the memory types find_memory_type_index can return
MemoryTypes == {0}

\* the (size, alignment) pairs callers ask for; alignments are powers of two
Sizes == {3, 64}
Alignments == {1, 64}

\* the minimum chunk size, 64 * 1024 * 1024
MinChunkSize == 67108864

\* Round up size to alignment
AlignedSize(size, alignment) == ((size + alignment - 1) \div alignment) * alignment

\* vk::MemoryRequirements.size for a buffer of `size` bytes: at least the
\* buffer's size and a multiple of the alignment
RequirementSizes(size, alignment) ==
    {AlignedSize(size, alignment), AlignedSize(size, alignment) + alignment}

\* free_regions.iter().find(|(_, region_size)| *region_size >= aligned_size):
\* the index of the first fitting region, 0 when there is none
RECURSIVE FindRegionFrom(_, _, _)
FindRegionFrom(regions, aligned_size, i) ==
    IF i > Len(regions) THEN 0
    ELSE IF regions[i][2] >= aligned_size THEN i
    ELSE FindRegionFrom(regions, aligned_size, i + 1)

FindRegion(regions, aligned_size) == FindRegionFrom(regions, aligned_size, 1)

\* the first chunk of chunk_list with a fitting region, 0 when there is none
RECURSIVE FindChunkFrom(_, _, _)
FindChunkFrom(chunk_list, aligned_size, c) ==
    IF c > Len(chunk_list) THEN 0
    ELSE IF FindRegion(chunk_list[c].free_regions, aligned_size) # 0 THEN c
    ELSE FindChunkFrom(chunk_list, aligned_size, c + 1)

\* free_regions.retain(|&(region_offset, _)| region_offset != offset)
RetainOthers(regions, offset) == SelectSeq(regions, LAMBDA r : r[1] # offset)

\* the remainder allocate puts back: taken when aligned_size < requirements.size,
\* and then of requirements.size - aligned_size bytes
ShrinkRegion(regions, offset, aligned_size, req_size) ==
    IF aligned_size < req_size
    THEN Append(RetainOthers(regions, offset), <<offset + aligned_size, req_size - aligned_size>>)
    ELSE RetainOthers(regions, offset)

\* sort_by_key(|&(offset, _)| offset): a stable sort
RECURSIVE InsertSorted(_, _)
InsertSorted(sorted, r) ==
    IF sorted = <<>> THEN <<r>>
    ELSE IF Head(sorted)[1] <= r[1] THEN <<Head(sorted)>> \o InsertSorted(Tail(sorted), r)
    ELSE <<r>> \o sorted

RECURSIVE SortByOffset(_)
SortByOffset(regions) ==
    IF regions = <<>> THEN <<>>
    ELSE InsertSorted(SortByOffset(SubSeq(regions, 1, Len(regions) - 1)), regions[Len(regions)])

\* the merge loop of free: while i < len - 1, merge region i+1 into region i
\* when current.0 + current.1 == next.0, else advance
RECURSIVE MergeFrom(_, _)
MergeFrom(regions, i) ==
    IF i >= Len(regions) THEN regions
    ELSE IF regions[i][1] + regions[i][2] = regions[i + 1][1]
         THEN MergeFrom(RemoveAt([regions EXCEPT ![i] = <<regions[i][1], regions[i][2] + regions[i + 1][2]>>],
                                 i + 1), i)
         ELSE MergeFrom(regions, i + 1)

MergeAdjacent(regions) == MergeFrom(regions, 1)

\* free's update of the owning chunk's list: push, sort, merge
FreeRegions(regions, offset, size) ==
    MergeAdjacent(SortByOffset(Append(regions, <<offset, size>>)))

\* the first chunk of chunk_list whose memory is `memory`, 0 when there is none
RECURSIVE FindOwnerFrom(_, _, _)
FindOwnerFrom(chunk_list, memory, c) ==
    IF c > Len(chunk_list) THEN 0
    ELSE IF chunk_list[c].memory = memory THEN c
    ELSE FindOwnerFrom(chunk_list, memory, c + 1)

NumChunks == SumSeq([t \in 1..Cardinality(MemoryTypes) |-> Len(chunks[t - 1])])

NumRegions ==
    SumSeq([c \in 1..Len(chunks[0]) |-> Len(chunks[0][c].free_regions)])

\* The caller's blocks, kept in one canonical order: which block the caller
\* received first does not matter to the allocator.
BlockLess(a, b) ==
    \/ a.memory < b.memory
    \/ a.memory = b.memory /\ a.offset < b.offset
    \/ a.memory = b.memory /\ a.offset = b.offset /\ a.size <= b.size

RECURSIVE Hold(_, _)
Hold(blocks, b) ==
    IF blocks = <<>> THEN <<b>>
    ELSE IF BlockLess(Head(blocks), b) THEN <<Head(blocks)>> \o Hold(Tail(blocks), b)
    ELSE <<b>> \o blocks

NoAlloc == [op |-> "none"]

AllocInit ==
    /\ chunks = [t \in MemoryTypes |-> <<>>]
    /\ live = <<>>
    /\ nextMemory = 1
    /\ lastAlloc = NoAlloc

\* MemoryAllocator::allocate served from an existing chunk
AllocateFromRegion(size, alignment, req_size, mt) ==
    LET aligned_size == AlignedSize(size, alignment)
        c == FindChunkFrom(chunks[mt], aligned_size, 1)
    IN  /\ Len(live) < MaxLive
        /\ c # 0
        /\ chunks[mt][c].free_regions[FindRegion(chunks[mt][c].free_regions, aligned_size)][1] <= MaxOffset
        /\ LET chunk == chunks[mt][c]
               region == chunk.free_regions[FindRegion(chunk.free_regions, aligned_size)]
               offset == region[1]
               block == [memory |-> chunk.memory, offset |-> offset,
                         size |-> aligned_size, memory_type_index |-> mt]
           IN  /\ chunks' = [chunks EXCEPT ![mt][c].free_regions =
                                 ShrinkRegion(chunk.free_regions, offset, aligned_size, req_size)]
               /\ live' = Hold(live, block)
               /\ lastAlloc' = [op |-> "allocate", block |-> block, alignment |-> alignment,
                                region |-> region, new_chunk |-> FALSE]
        /\ UNCHANGED <<nextMemory, notAlloc>>

\* MemoryAllocator::allocate creating a new chunk (create_chunk returned Ok)
AllocateNewChunk(size, alignment, req_size, mt) ==
    LET aligned_size == AlignedSize(size, alignment)
        chunk_size == Max(aligned_size, MinChunkSize)
        block == [memory |-> nextMemory, offset |-> 0,
                  size |-> aligned_size, memory_type_index |-> mt]
    IN  /\ Len(live) < MaxLive
        /\ FindChunkFrom(chunks[mt], aligned_size, 1) = 0
        /\ NumChunks < MaxChunks
        /\ chunks' = [chunks EXCEPT ![mt] = Append(@,
                         [memory |-> nextMemory, size |-> chunk_size,
                          free_regions |-> IF chunk_size > aligned_size
                                           THEN << <<aligned_size, chunk_size - aligned_size>> >>
                                           ELSE <<>>,
                          memory_type_index |-> mt])]
        /\ live' = Hold(live, block)
        /\ nextMemory' = nextMemory + 1
        /\ lastAlloc' = [op |-> "allocate", block |-> block, alignment |-> alignment,
                         region |-> <<0, chunk_size>>, new_chunk |-> TRUE]
        /\ UNCHANGED notAlloc

\* MemoryAllocator::allocate when create_chunk fails: AllocationFailed
AllocateFails(size, alignment, mt) ==
    /\ FindChunkFrom(chunks[mt], AlignedSize(size, alignment), 1) = 0
    /\ lastAlloc' = [op |-> "allocate_failed"]
    /\ UNCHANGED <<chunks, live, nextMemory, notAlloc>>

\* MemoryAllocator::free of a block the caller holds
Free(k) ==
    LET block == live[k]
        mt == block.memory_type_index
        c == FindOwnerFrom(chunks[mt], block.memory, 1)
    IN  /\ c # 0
        /\ NumRegions < MaxRegions
        /\ chunks' = [chunks EXCEPT ![mt][c].free_regions =
                          FreeRegions(@, block.offset, block.size)]
        /\ live' = RemoveAt(live, k)
        /\ lastAlloc' = [op |-> "free", block |-> block, chunk |-> c]
        /\ UNCHANGED <<nextMemory, notAlloc>>

AllocNext ==
    \/ \E size \in Sizes, alignment \in Alignments, mt \in MemoryTypes :
         \E req_size \in RequirementSizes(size, alignment) :
            AllocateFromRegion(size, alignment, req_size, mt)
    \/ \E size \in Sizes, alignment \in Alignments, mt \in MemoryTypes :
         \E req_size \in RequirementSizes(size, alignment) :
            AllocateNewChunk(size, alignment, req_size, mt)
    \/ \E size \in Sizes, alignment \in Alignments, mt \in MemoryTypes :
            AllocateFails(size, alignment, mt)
    \/ \E k \in 1..Len(live) : Free(k)


\* Drop for MemoryAllocator: chunk.size - sum of the free regions' sizes, a u64
\* subtraction
unfreed_size(chunk) ==
    chunk.size - SumSeq([i \in 1..Len(chunk.free_regions) |-> chunk.free_regions[i][2]])

\* the subtraction overflows: a panic where overflow checks are compiled in,
\* a wrapped (large, positive) value where they are not
Underflows(chunk) == chunk.free_regions # <<>> /\ unfreed_size(chunk) < 0

\* warn_leak is called for the chunk
WarnsLeak(chunk) == chunk.free_regions # <<>> /\ unfreed_size(chunk) # 0

\* the position of the first chunk of chunk_list whose subtraction overflows,
\* Len(chunk_list) + 1 when there is none
RECURSIVE FirstUnderflow(_, _)
FirstUnderflow(chunk_list, c) ==
    IF c > Len(chunk_list) \/ Underflows(chunk_list[c]) THEN c
    ELSE FirstUnderflow(chunk_list, c + 1)

\* what drop did to the first n chunks, and what the allocator held
Dropped(op, n) ==
    [op |-> op,
     chunks |-> chunks[0],
     live |-> live,
     warned |-> [c \in 1..n |-> WarnsLeak(chunks[0][c])],
     freed |-> [c \in 1..n |-> chunks[0][c].memory]]

\* drop runs to its end: every chunk is looked at, then freed. The allocator
\* is gone afterwards; the next call is on a new one.
DropAllocator ==
    /\ chunks[0] # <<>>
    /\ lastAlloc' = Dropped("drop", Len(chunks[0]))
    /\ chunks' = [t \in MemoryTypes |-> <<>>]
    /\ live' = <<>>
    /\ nextMemory' = 1
    /\ UNCHANGED notAlloc

\* drop panics at the first chunk whose subtraction overflows (overflow checks
\* on): the chunks before it were freed, this one and the later ones were not
DropAllocatorPanics ==
    LET c == FirstUnderflow(chunks[0], 1)
    IN  /\ c <= Len(chunks[0])
        /\ lastAlloc' = Dropped("drop_panic", c - 1)
        /\ chunks' = [t \in MemoryTypes |-> <<>>]
        /\ live' = <<>>
        /\ nextMemory' = 1
        /\ UNCHANGED notAlloc

\* the requests of the teardown scenarios: a small buffer and one that fills a
\* whole chunk
TeardownSizes == {64, MinChunkSize}

AllocDropNext ==
    \/ \E size \in TeardownSizes : \E req_size \in RequirementSizes(size, 64) :
           AllocateFromRegion(size, 64, req_size, 0)
    \/ \E size \in TeardownSizes : \E req_size \in RequirementSizes(size, 64) :
           AllocateNewChunk(size, 64, req_size, 0)
    \/ \E k \in 1..Len(live) : Free(k)
    \/ DropAllocator
    \/ DropAllocatorPanics


\* ------------------------------------------------------------------------
\* MemoryPool (physics/memory.rs)
\* ------------------------------------------------------------------------

\* bounds of the model
MaxDeviceAllocs == 3
MaxHeld == 3
MaxFreeList == 3

\* 1MB minimum pool size, 256MB maximum pool size
MIN_POOL_SIZE == 1048576
MAX_POOL_SIZE == 268435456

\* the initial sizes a pool is created with: below the minimum, the 1MB of
\* GpuPhysicsSystem::new, in range, and above the maximum
InitialSizes == {0, 1048576, 2097152, 536870912}

\* the sizes and alignments (powers of two) asked of the pool
PoolSizes == {64, 3145728}
PoolAlignments == {1, 256}

\* initial_size.max(MIN_POOL_SIZE).min(MAX_POOL_SIZE)
ClampBlockSize(initial_size) == Min(Max(initial_size, MIN_POOL_SIZE), MAX_POOL_SIZE)

\* MemoryPool::new
NewPool(initial_size) ==
    [blocks |-> <<>>, free_blocks |-> <<>>, total_size |-> 0, used_size |-> 0,
     block_size |-> ClampBlockSize(initial_size)]

\* (block.offset + alignment - 1) & !(alignment - 1), alignment a power of two
AlignedOffset(offset, alignment) == ((offset + alignment - 1) \div alignment) * alignment

\* the test find_free_block makes on blocks[index] (indices count from 0)
BlockFits(block, size, alignment) ==
    /\ block.is_free
    /\ block.size >= size
    /\ AlignedOffset(block.offset, alignment) + size <= block.offset + block.size

\* MemoryPool::find_free_block: walks free_blocks in order; the block index
\* found, -1 for None, -2 when self.blocks[index] is out of bounds (a panic)
RECURSIVE FindFreeBlockFrom(_, _, _, _)
FindFreeBlockFrom(p, size, alignment, k) ==
    IF k > Len(p.free_blocks) THEN -1
    ELSE LET index == p.free_blocks[k]
         IN  IF index >= Len(p.blocks) THEN -2
             ELSE IF BlockFits(p.blocks[index + 1], size, alignment) THEN index
             ELSE FindFreeBlockFrom(p, size, alignment, k + 1)

FindFreeBlock(p, size, alignment) == FindFreeBlockFrom(p, size, alignment, 1)

\* free_blocks without the first entry equal to idx, if there is one
RECURSIVE RemoveFirst(_, _)
RemoveFirst(list, idx) ==
    IF list = <<>> THEN <<>>
    ELSE IF Head(list) = idx THEN Tail(list)
    ELSE <<Head(list)>> \o RemoveFirst(Tail(list), idx)

\* MemoryPool::coalesce_free_blocks: merges blocks[i + 1] into blocks[i] when
\* both are free, whatever memory they belong to
RECURSIVE CoalesceFrom(_, _)
CoalesceFrom(p, i) ==
    IF i >= Len(p.blocks) - 1 THEN p
    ELSE IF p.blocks[i + 1].is_free /\ p.blocks[i + 2].is_free
         THEN CoalesceFrom(
                 [p EXCEPT !.blocks = RemoveAt([p.blocks EXCEPT ![i + 1].size =
                                                    @ + p.blocks[i + 2].size], i + 2),
                           !.free_blocks = RemoveFirst(@, i + 1)], i)
         ELSE CoalesceFrom(p, i + 1)

CoalesceFreeBlocks(p) == CoalesceFrom(p, 0)

\* blocks.iter().position(|block| block.memory == memory && block.offset == offset),
\* -1 for None
RECURSIVE PositionFrom(_, _, _, _)
PositionFrom(blocks, memory, offset, i) ==
    IF i >= Len(blocks) THEN -1
    ELSE IF blocks[i + 1].memory = memory /\ blocks[i + 1].offset = offset THEN i
    ELSE PositionFrom(blocks, memory, offset, i + 1)

\* MemoryPool::free
PoolFree(p, memory, offset) ==
    LET index == PositionFrom(p.blocks, memory, offset, 0)
    IN  IF index = -1 THEN p
        ELSE CoalesceFreeBlocks([p EXCEPT !.blocks[index + 1].is_free = TRUE,
                                          !.free_blocks = Append(@, index)])

\* MemoryPool::allocate served from a free block
PoolReuse(p, index, size) ==
    [p EXCEPT !.blocks[index + 1].is_free = FALSE, !.used_size = @ + size]

\* MemoryPool::allocate taking a new block of device memory `memory`
PoolGrow(p, size, memory) ==
    [p EXCEPT !.blocks = Append(@, [memory |-> memory, size |-> Max(size, p.block_size),
                                    offset |-> 0, is_free |-> FALSE]),
              !.total_size = @ + Max(size, p.block_size),
              !.used_size = @ + size]

\* MemoryPool::cleanup
PoolCleanup(p) ==
    [p EXCEPT !.blocks = <<>>, !.free_blocks = <<>>, !.total_size = 0, !.used_size = 0]

\* MemoryPool::get_stats
GetStats(p) ==
    [total_size |-> p.total_size, used_size |-> p.used_size,
     free_size |-> p.total_size - p.used_size,
     block_count |-> Len(p.blocks), free_block_count |-> Len(p.free_blocks)]

\* The caller's (memory, offset, size) triples in one canonical order
HeldLess(a, b) ==
    \/ a.memory < b.memory
    \/ a.memory = b.memory /\ a.offset < b.offset
    \/ a.memory = b.memory /\ a.offset = b.offset /\ a.size <= b.size

RECURSIVE Keep(_, _)
Keep(list, h) ==
    IF list = <<>> THEN <<h>>
    ELSE IF HeldLess(Head(list), h) THEN <<Head(list)>> \o Keep(Tail(list), h)
    ELSE <<h>> \o list

PoolInit ==
    /\ \E initial_size \in InitialSizes : pool = NewPool(initial_size)
    /\ device = <<>>
    /\ held = <<>>
    /\ lastPool = [op |-> "none"]

\* MemoryPool::allocate, lines 51-56: a free block fits
PoolAllocateReuse(size, alignment) ==
    LET index == FindFreeBlock(pool, size, alignment)
    IN  /\ lastPool.op # "panic"
        /\ Len(held) < MaxHeld
        /\ index >= 0
        /\ pool' = PoolReuse(pool, index, size)
        /\ held' = Keep(held, [memory |-> pool.blocks[index + 1].memory,
                               offset |-> pool.blocks[index + 1].offset, size |-> size])
        /\ lastPool' = [op |-> "allocate", size |-> size, alignment |-> alignment,
                        memory |-> pool.blocks[index + 1].memory,
                        offset |-> pool.blocks[index + 1].offset,
                        block |-> pool.blocks[index + 1], new_chunk |-> FALSE]
        /\ UNCHANGED <<device, notPool>>

\* MemoryPool::allocate, lines 58-84: no free block fits, allocate_memory succeeds
PoolAllocateGrow(size, alignment) ==
    LET memory == Len(device) + 1
    IN  /\ lastPool.op # "panic"
        /\ Len(held) < MaxHeld
        /\ FindFreeBlock(pool, size, alignment) = -1
        /\ Len(device) < MaxDeviceAllocs
        /\ pool' = PoolGrow(pool, size, memory)
        /\ device' = Append(device, Max(size, pool.block_size))
        /\ held' = Keep(held, [memory |-> memory, offset |-> 0, size |-> size])
        /\ lastPool' = [op |-> "allocate", size |-> size, alignment |-> alignment,
                        memory |-> memory, offset |-> 0,
                        block |-> [memory |-> memory, size |-> Max(size, pool.block_size),
                                   offset |-> 0, is_free |-> FALSE],
                        new_chunk |-> TRUE]
        /\ UNCHANGED notPool

\* MemoryPool::allocate, lines 65-71: allocate_memory fails, OutOfMemory
PoolAllocateFails(size, alignment) ==
    /\ lastPool.op # "panic"
    /\ FindFreeBlock(pool, size, alignment) = -1
    /\ lastPool' = [op |-> "out_of_memory"]
    /\ UNCHANGED <<pool, device, held, notPool>>

\* MemoryPool::allocate when find_free_block indexes blocks out of bounds
PoolAllocatePanics(size, alignment) ==
    /\ lastPool.op # "panic"
    /\ FindFreeBlock(pool, size, alignment) = -2
    /\ lastPool' = [op |-> "panic"]
    /\ UNCHANGED <<pool, device, held, notPool>>

\* MemoryPool::free of a (memory, offset) the caller holds
PoolFreeHeld(k) ==
    /\ lastPool.op # "panic"
    /\ Len(pool.free_blocks) < MaxFreeList
    /\ pool' = PoolFree(pool, held[k].memory, held[k].offset)
    /\ held' = RemoveAt(held, k)
    /\ lastPool' = [op |-> "free", memory |-> held[k].memory, offset |-> held[k].offset]
    /\ UNCHANGED <<device, notPool>>

PoolNext ==
    \/ \E size \in PoolSizes, alignment \in PoolAlignments : PoolAllocateReuse(size, alignment)
    \/ \E size \in PoolSizes, alignment \in PoolAlignments : PoolAllocateGrow(size, alignment)
    \/ \E size \in PoolSizes, alignment \in PoolAlignments : PoolAllocateFails(size, alignment)
    \/ \E size \in PoolSizes, alignment \in PoolAlignments : PoolAllocatePanics(size, alignment)
    \/ \E k \in 1..Len(held) : PoolFreeHeld(k)


\* ------------------------------------------------------------------------
\* BufferPool and GpuPhysicsSystem (physics/memory.rs, physics/gpu_physics.rs)
\* ------------------------------------------------------------------------

\* std::mem::size_of::<Particle>(): two [f32; 4]
ParticleSize == 32

\* the alignment get_buffer_memory_requirements reports for a storage buffer
GpuAlignment == 256

\* GpuPhysicsSystem::new: 1MB initial pool size, max_recovery_attempts 3
InitialPoolSize == 1048576
DefaultMaxRecoveryAttempts == 3

\* the number of dispatches submitted in a run
MaxSteps == 2

\* the number of buffers created in a run
MaxBuffers == 4

\* the particle counts initialize and resize are called with
ParticleCounts == {1, 2}

\* SystemState::default
DefaultSystemState ==
    [is_initialized |-> FALSE, last_error |-> "None", recovery_attempts |-> 0,
     needs_reset |-> FALSE]

NoBuffers == [some |-> FALSE]

\* GpuPhysicsSystem::new
NewGpu ==
    [particle_buffers |-> NoBuffers,
     buffers |-> <<>>,
     buffer_size |-> 0,
     descriptor_sets |-> FALSE,
     sync_primitives |-> FALSE,
     compute_pipeline |-> FALSE,
     pipeline_layout |-> FALSE,
     state |-> DefaultSystemState,
     max_recovery_attempts |-> DefaultMaxRecoveryAttempts]

\* BufferPool::allocate_buffer on w = [pool, device, buffers, vk]; `fail` names
\* the Vulkan call that fails, if any.  Returns the new w and the result.
AllocateBuffer(w, size, fail) ==
    IF fail = "create_buffer"
    THEN [w |-> w, result |-> "InitializationFailed"]
    ELSE
    LET buffer == w.vk.next_buffer
        w1 == [w EXCEPT !.vk.next_buffer = @ + 1, !.vk.live_buffers = @ \cup {buffer}]
        req_size == AlignedSize(size, GpuAlignment)
        index == FindFreeBlock(w.pool, req_size, GpuAlignment)
        memory == IF index >= 0 THEN w.pool.blocks[index + 1].memory ELSE Len(w.device) + 1
        offset == IF index >= 0 THEN w.pool.blocks[index + 1].offset ELSE 0
        w2 == IF index >= 0
              THEN [w1 EXCEPT !.pool = PoolReuse(w.pool, index, req_size)]
              ELSE [w1 EXCEPT !.pool = PoolGrow(w.pool, req_size, memory),
                              !.device = Append(@, Max(req_size, w.pool.block_size))]
    IN  IF index = -2 THEN [w |-> w1, result |-> "panic"]
        ELSE IF index = -1 /\ (fail = "allocate_memory" \/ Len(w.device) >= MaxDeviceAllocs)
        THEN [w |-> w1, result |-> "OutOfMemory"]
        ELSE IF fail = "bind_buffer_memory"
        THEN [w |-> w2, result |-> "InitializationFailed"]
        ELSE [w |-> [w2 EXCEPT !.buffers = Append(@, buffer)], result |-> "Ok",
              buffer |-> buffer, memory |-> memory, offset |-> offset]

\* buffers.swap_remove(pos): the last element takes the place of the removed one
SwapRemove(list, pos) ==
    IF pos = Len(list) THEN SubSeq(list, 1, Len(list) - 1)
    ELSE [i \in 1..Len(list) - 1 |-> IF i = pos THEN list[Len(list)] ELSE list[i]]

\* buffers.iter().position(|&b| b == buffer), 0 for None
RECURSIVE BufferPosition(_, _, _)
BufferPosition(list, buffer, i) ==
    IF i > Len(list) THEN 0
    ELSE IF list[i] = buffer THEN i
    ELSE BufferPosition(list, buffer, i + 1)

\* BufferPool::free_buffer: destroy the buffer, free the memory, forget the buffer
FreeBuffer(w, buffer, memory, offset) ==
    LET pos == BufferPosition(w.buffers, buffer, 1)
    IN  [w EXCEPT !.vk.live_buffers = @ \ {buffer},
                  !.vk.faults = IF buffer \in w.vk.live_buffers THEN @
                                ELSE @ \cup {"destroy of a destroyed buffer"},
                  !.pool = PoolFree(@, memory, offset),
                  !.buffers = IF pos = 0 THEN @ ELSE SwapRemove(@, pos)]

\* BufferPool::cleanup: destroy every tracked buffer, then MemoryPool::cleanup,
\* which frees every block's memory
BufferPoolCleanup(w) ==
    [w EXCEPT !.vk.live_buffers = @ \ {w.buffers[i] : i \in 1..Len(w.buffers)},
              !.vk.faults = IF \A i \in 1..Len(w.buffers) : w.buffers[i] \in w.vk.live_buffers
                            THEN @ ELSE @ \cup {"destroy of a destroyed buffer"},
              !.vk.mapped = @ \ {w.pool.blocks[i].memory : i \in 1..Len(w.pool.blocks)},
              !.vk.freed = @ \cup {w.pool.blocks[i].memory : i \in 1..Len(w.pool.blocks)},
              !.buffers = <<>>,
              !.pool = PoolCleanup(@)]

\* the failure a call of initialize or resize can meet at its n-th buffer
BufferFailure(fail, which) ==
    IF fail = <<which, "create_buffer">> THEN "create_buffer"
    ELSE IF fail = <<which, "allocate_memory">> THEN "allocate_memory"
    ELSE IF fail = <<which, "bind_buffer_memory">> THEN "bind_buffer_memory"
    ELSE "none"

\* the failures injected into initialize: none, a buffer that cannot be
\* created, device memory that cannot be allocated, sync primitives that
\* cannot be created
InitializeFailures ==
    {<<"none">>, <<"front", "create_buffer">>, <<"back", "allocate_memory">>, <<"sync">>}

\* the failures injected into resize: none, device memory that cannot be
\* allocated, descriptor sets that cannot be updated
ResizeFailures ==
    {<<"none">>, <<"back", "allocate_memory">>, <<"descriptor_sets">>}

\* the contents freshly mapped device memory can show
P0 == [position |-> 0, velocity |-> 1]
P1 == [position |-> 1, velocity |-> 1]
Zeroed == [position |-> 0, velocity |-> 0]
UninitContents(count) == {[i \in 1..count |-> Zeroed], [i \in 1..count |-> P1]}

\* no update_particles(D); step() sequence is under way
NoFrame == [stage |-> 0, data |-> <<>>]

\* the two halves after a new ParticleBufferPair has been mapped
FreshSim(front, back, steps) ==
    [halves |-> <<front, back>>, in_flight |-> {}, fence |-> "unsignaled",
     active |-> 0, dispatched |-> 0, raced |-> {}, frame |-> NoFrame, steps |-> steps]

\* the two buffers of a pair, allocated and mapped (initialize 255-318,
\* resize 479-528); w = [pool, device, buffers, vk]
AllocatePair(w, size, fail) ==
    LET f == AllocateBuffer(w, size, BufferFailure(fail, "front"))
    IN  IF f.result # "Ok" THEN [w |-> f.w, result |-> f.result]
        ELSE
        LET b == AllocateBuffer(f.w, size, BufferFailure(fail, "back"))
        IN  IF b.result # "Ok" THEN [w |-> b.w, result |-> b.result]
            ELSE IF fail = <<"map_front">> THEN [w |-> b.w, result |-> "InitializationFailed"]
            ELSE IF fail = <<"map_back">>
            THEN [w |-> [b.w EXCEPT !.vk.mapped = @ \cup {f.memory}],
                  result |-> "InitializationFailed"]
            ELSE [w |-> [b.w EXCEPT !.vk.mapped = @ \cup {f.memory, b.memory}],
                  result |-> "Ok",
                  pair |-> [some |-> TRUE,
                            front |-> [buffer |-> f.buffer, memory |-> f.memory, offset |-> f.offset],
                            back |-> [buffer |-> b.buffer, memory |-> b.memory, offset |-> b.offset]]]

World == [pool |-> pool, device |-> device, buffers |-> gpu.buffers, vk |-> vk]

\* lastGpu before any call
NoCall ==
    [op |-> "new", result |-> "Ok", was_initialized |-> FALSE, attempts_before |-> 0,
     changed |-> FALSE, written |-> -1, in_flight_before |-> {},
     framed |-> FALSE, returned |-> <<>>, expected |-> <<>>]

GpuInit ==
    /\ gpu = NewGpu
    /\ vk = [next_buffer |-> 1, live_buffers |-> {}, mapped |-> {}, freed |-> {},
             faults |-> {}]
    /\ sim = FreshSim(<<>>, <<>>, 0)
    /\ lastGpu = NoCall

Running == lastGpu.op \notin {"panic", "drop"}


\* try_recover, called by initialize when needs_reset: recovery is refused
\* once recovery_attempts has reached max_recovery_attempts
TryRecover(g) ==
    IF g.state.recovery_attempts >= g.max_recovery_attempts
    THEN [ok |-> FALSE, gpu |-> g]
    ELSE [ok |-> TRUE, gpu |-> [g EXCEPT !.state.needs_reset = FALSE]]

\* a recoverable error met by step, update_particles or get_particle_data
RecordRecoverable(g, error) ==
    [g EXCEPT !.state.last_error = error,
              !.state.recovery_attempts = Min(@ + 1, g.max_recovery_attempts),
              !.state.needs_reset = TRUE]

\* what a call leaves in lastGpu; a panic inside the pool ends the run
Outcome(op, result, g, w) ==
    [NoCall EXCEPT !.op = IF result = "panic" THEN "panic" ELSE op,
                   !.result = result,
                   !.was_initialized = gpu.state.is_initialized,
                   !.attempts_before = gpu.state.recovery_attempts,
                   !.changed = (g # gpu \/ w.pool # pool \/ w.device # device \/ w.vk # vk)]

\* GpuPhysicsSystem::initialize
Initialize(particle_count, fail) ==
    LET buffer_size == particle_count * ParticleSize
        rec == IF gpu.state.needs_reset THEN TryRecover(gpu) ELSE [ok |-> TRUE, gpu |-> gpu]
        g0 == rec.gpu
        a == AllocatePair(World, buffer_size, fail)
        g1 == [g0 EXCEPT !.buffers = a.w.buffers]
        g2 == [g1 EXCEPT !.particle_buffers = a.pair, !.buffer_size = buffer_size]
        g3 == [g2 EXCEPT !.descriptor_sets = TRUE]
        g4 == [g3 EXCEPT !.pipeline_layout = TRUE, !.compute_pipeline = TRUE]
        g5 == [g4 EXCEPT !.sync_primitives = TRUE]
        g6 == [g5 EXCEPT !.state.is_initialized = TRUE]
        done(g, w, result) ==
            /\ gpu' = g
            /\ pool' = w.pool
            /\ device' = w.device
            /\ vk' = w.vk
            /\ lastGpu' = Outcome("initialize", result, g, w)
    IN  /\ Running
        /\ Len(pool.free_blocks) < MaxFreeList
        /\ vk.next_buffer <= MaxBuffers
        /\ IF ~rec.ok
           THEN done(g0, World, "InvalidOperation") /\ UNCHANGED sim
           ELSE IF a.result # "Ok"
           THEN done(g1, a.w, a.result) /\ UNCHANGED sim
           ELSE /\ \E content \in UninitContents(particle_count) :
                       sim' = FreshSim(content, content, sim.steps)
                /\ IF fail = <<"descriptor_sets">> THEN done(g2, a.w, "InitializationFailed")
                   ELSE IF fail = <<"pipeline">> THEN done(g3, a.w, "InitializationFailed")
                   ELSE IF fail = <<"sync">> THEN done(g4, a.w, "InitializationFailed")
                   ELSE done(g6, a.w, "Ok")
        /\ UNCHANGED notGpu

\* GpuPhysicsSystem::resize
Resize(new_particle_count, fail) ==
    LET new_size == new_particle_count * ParticleSize
        old == gpu.particle_buffers
        w0 == IF old.some
              THEN FreeBuffer(FreeBuffer(World, old.front.buffer, old.front.memory, old.front.offset),
                              old.back.buffer, old.back.memory, old.back.offset)
              ELSE World
        a == AllocatePair(w0, new_size, fail)
        g1 == [gpu EXCEPT !.buffers = a.w.buffers]
        g2 == [g1 EXCEPT !.particle_buffers = a.pair, !.buffer_size = new_size]
        done(g, w, result) ==
            /\ gpu' = g
            /\ pool' = w.pool
            /\ device' = w.device
            /\ vk' = w.vk
            /\ lastGpu' = Outcome("resize", result, g, w)
    IN  /\ Running
        /\ Len(pool.free_blocks) < MaxFreeList
        /\ vk.next_buffer <= MaxBuffers
        /\ IF a.result # "Ok"
           THEN done(g1, a.w, a.result) /\ UNCHANGED sim
           ELSE /\ \E content \in UninitContents(new_particle_count) :
                       sim' = FreshSim(content, content, sim.steps)
                /\ IF fail = <<"descriptor_sets">> THEN done(g2, a.w, "InitializationFailed")
                   ELSE done(g2, a.w, "Ok")
        /\ UNCHANGED notGpu

\* GpuPhysicsSystem::cleanup (also run by drop): unmap both halves, then
\* BufferPool::cleanup
Cleanup ==
    LET old == gpu.particle_buffers
        memories == IF old.some THEN {old.front.memory, old.back.memory} ELSE {}
        w0 == [World EXCEPT !.vk.mapped = @ \ memories,
                            !.vk.faults = IF memories \subseteq vk.mapped THEN @
                                          ELSE @ \cup {"unmap of memory not mapped"}]
        w1 == BufferPoolCleanup(w0)
        g1 == [gpu EXCEPT !.buffers = w1.buffers]
    IN  /\ Running
        /\ gpu' = g1
        /\ pool' = w1.pool
        /\ device' = w1.device
        /\ vk' = w1.vk
        /\ lastGpu' = Outcome("cleanup", "Ok", g1, w1)
        /\ sim' = [sim EXCEPT !.frame = NoFrame]
        /\ UNCHANGED notGpu

\* step, update_particles, get_particle_data and try_recover are declared and
\* called in the repository but gpu_physics.rs does not define them; they
\* follow section 4.3 of the specification: update_particles writes the
\* inactive half, step dispatches in place on the active half and flips,
\* get_particle_data waits on the fence and reads back the dispatched half.

\* the time step and the upper simulation bound of the push constants
DeltaTime == 1
MaxPosition == 2

\* one integration step of the compute shader on one particle
Integrate(p) ==
    [position |-> Min(p.position + p.velocity * DeltaTime, MaxPosition),
     velocity |-> p.velocity]

IntegrateAll(data) == [i \in 1..Len(data) |-> Integrate(data[i])]

\* the particle arrays update_particles is called with
DataSets == {<<P0>>, <<P0, P1>>}

\* the write of update_particles on the halves s: `content` is what the
\* inactive half holds afterwards
WriteInactive(s, data, content) ==
    LET half == 1 - s.active
    IN  [s EXCEPT !.halves[half + 1] = content,
                  !.raced = IF half \in s.in_flight THEN @ \cup {half} ELSE @,
                  !.frame = [stage |-> 1, data |-> data]]

\* what the inactive half can hold after data was written to it: data, or
\* what the dispatch in flight on that half left of it
WrittenContents(s, data) ==
    IF (1 - s.active) \in s.in_flight THEN {data, s.halves[(1 - s.active) + 1]} ELSE {data}

\* the dispatch of step on the halves s, and the flip
Dispatch(s) ==
    [s EXCEPT !.steps = @ + 1,
              !.in_flight = @ \cup {s.active},
              !.fence = "pending",
              !.dispatched = s.active,
              !.active = 1 - s.active,
              !.frame = IF s.frame.stage = 1 THEN [stage |-> 2, data |-> s.frame.data]
                        ELSE NoFrame]

\* the calls that leave the buffers and the pool alone
Quiet(g, op, result) ==
    /\ gpu' = g
    /\ lastGpu' = Outcome(op, result, g, World)
    /\ UNCHANGED <<pool, device, vk, notGpu>>

\* update_particles(data): writes the currently-inactive half through its
\* mapped pointer, without blocking
UpdateParticles(data) ==
    /\ Running
    /\ IF ~gpu.state.is_initialized
       THEN Quiet(gpu, "update_particles", "InvalidOperation") /\ UNCHANGED sim
       ELSE IF Len(data) * ParticleSize > gpu.buffer_size
       THEN /\ Quiet(RecordRecoverable(gpu, "BufferOverflow"), "update_particles",
                     "BufferOverflow")
            /\ UNCHANGED sim
       ELSE /\ gpu' = gpu
            /\ lastGpu' = [Outcome("update_particles", "Ok", gpu, World)
                              EXCEPT !.written = 1 - sim.active,
                                     !.in_flight_before = sim.in_flight]
            /\ \E content \in WrittenContents(sim, data) :
                   sim' = WriteInactive(sim, data, content)
            /\ UNCHANGED <<pool, device, vk, notGpu>>

\* step(): submits the dispatch against the active half, whose completion
\* signals the fence, and flips the active half
Step ==
    /\ Running
    /\ IF ~gpu.state.is_initialized
       THEN Quiet(gpu, "step", "InvalidOperation") /\ UNCHANGED sim
       ELSE /\ sim.steps < MaxSteps
            /\ Quiet(gpu, "step", "Ok")
            /\ sim' = Dispatch(sim)

\* the halves after the device has finished the dispatch on half h: the
\* particles are integrated in place; a half the CPU wrote meanwhile may hold
\* either
Completions(s, h) ==
    {[s EXCEPT !.halves[h + 1] = content,
               !.in_flight = @ \ {h},
               !.raced = @ \ {h},
               !.fence = IF s.in_flight = {h} THEN "signaled" ELSE @] :
         content \in (IF h \in s.raced
                      THEN {IntegrateAll(s.halves[h + 1]), s.halves[h + 1]}
                      ELSE {IntegrateAll(s.halves[h + 1])})}

\* the device finishes the dispatch on half h
GpuCompletes(h) ==
    /\ Running
    /\ h \in sim.in_flight
    /\ \E s \in Completions(sim, h) : sim' = s
    /\ UNCHANGED <<gpu, pool, device, vk, lastGpu, notGpu>>

\* get_particle_data(): waits on the fence, then reads back the half the GPU
\* just finished writing
GetParticleData ==
    /\ Running
    /\ IF ~gpu.state.is_initialized
       THEN Quiet(gpu, "get_particle_data", "InvalidOperation") /\ UNCHANGED sim
       ELSE /\ sim.fence = "signaled"
            /\ gpu' = gpu
            /\ lastGpu' = [Outcome("get_particle_data", "Ok", gpu, World)
                              EXCEPT !.framed = (sim.frame.stage = 2),
                                     !.returned = sim.halves[sim.dispatched + 1],
                                     !.expected = IntegrateAll(sim.frame.data)]
            /\ sim' = [sim EXCEPT !.frame = NoFrame]
            /\ UNCHANGED <<pool, device, vk, notGpu>>

\* get_particle_data() whose fence wait times out
GetParticleDataTimesOut ==
    /\ Running
    /\ gpu.state.is_initialized
    /\ sim.fence # "signaled"
    /\ Quiet(RecordRecoverable(gpu, "SynchronizationError"), "get_particle_data",
             "SynchronizationError")
    /\ sim' = [sim EXCEPT !.frame = NoFrame]

GpuNext ==
    \/ \E particle_count \in ParticleCounts, fail \in InitializeFailures :
           Initialize(particle_count, fail)
    \/ \E new_particle_count \in ParticleCounts, fail \in ResizeFailures :
           Resize(new_particle_count, fail)
    \/ Cleanup
    \/ \E data \in DataSets : UpdateParticles(data)
    \/ Step
    \/ \E h \in {0, 1} : GpuCompletes(h)
    \/ GetParticleData
    \/ GetParticleDataTimesOut


\* Drop for GpuPhysicsSystem: cleanup(), then the fields are dropped, among
\* them the BufferPool (Drop: cleanup) and its MemoryPool (Drop: cleanup).
\* The system is gone afterwards.
DropGpu ==
    LET old == gpu.particle_buffers
        memories == IF old.some THEN {old.front.memory, old.back.memory} ELSE {}
        w0 == [World EXCEPT !.vk.mapped = @ \ memories,
                            !.vk.faults = IF memories \subseteq vk.mapped THEN @
                                          ELSE @ \cup {"unmap of memory not mapped"}]
        w1 == BufferPoolCleanup(w0)
        w2 == BufferPoolCleanup(w1)
        w3 == [w2 EXCEPT !.pool = PoolCleanup(@)]
        g1 == [gpu EXCEPT !.buffers = w3.buffers]
    IN  /\ Running
        /\ gpu' = g1
        /\ pool' = w3.pool
        /\ device' = w3.device
        /\ vk' = w3.vk
        /\ lastGpu' = Outcome("drop", "Ok", g1, w3)
        /\ sim' = [sim EXCEPT !.frame = NoFrame]
        /\ UNCHANGED notGpu

\* the life of a system as far as its buffers go: initialize, resizes that
\* succeed, cleanup, drop
GpuTeardownNext ==
    \/ \E particle_count \in ParticleCounts, fail \in InitializeFailures :
           Initialize(particle_count, fail)
    \/ \E new_particle_count \in ParticleCounts : Resize(new_particle_count, <<"none">>)
    \/ Cleanup
    \/ DropGpu


\* ------------------------------------------------------------------------
\* World (ecs/world.rs), the components and PhysicsBridgeSystem
\* (ecs/system/physics_bridge.rs)
\* ------------------------------------------------------------------------

\* the number of entity slots, of entity ids and of bridge frames in a run
MaxEntities == 2
MaxEntityIds == 3
MaxFrames == 2

\* the positions a PhysicsComponent is created with (the default one is at 0)
Positions == {1}

NoEntity == [some |-> FALSE]

NoParticle == [some |-> FALSE]

\* TransformComponent::default and PhysicsComponent::default
DefaultTransform == [position |-> 0]

DefaultPhysics ==
    [position |-> 0, velocity |-> 0, enabled |-> TRUE, particle_data |-> NoParticle]

\* PhysicsComponent::new(position, ..).with_velocity(velocity)
NewPhysics(position, velocity) ==
    [DefaultPhysics EXCEPT !.position = position, !.velocity = velocity]

\* World::new and PhysicsBridgeSystem::new
NewWorld == [entities |-> <<>>, transforms |-> <<>>, physics |-> <<>>, next_entity_id |-> 0]

NewBridge == [particles |-> <<>>, frame_count |-> 0]

NoUpdate ==
    [op |-> "none", result |-> "Ok", pushed |-> <<>>, returned |-> <<>>,
     before |-> [transforms |-> <<>>, physics |-> <<>>]]

BridgeInit ==
    /\ ecs = NewWorld
    /\ bridge = NewBridge
    /\ lastBridge = NoUpdate

\* World::find_free_index: entities.iter().position(|e| e.is_none()), 0-based,
\* -1 for None
RECURSIVE FindFreeIndexFrom(_, _)
FindFreeIndexFrom(entities, i) ==
    IF i > Len(entities) THEN -1
    ELSE IF ~entities[i].some THEN i - 1
    ELSE FindFreeIndexFrom(entities, i + 1)

FindFreeIndex(entities) == FindFreeIndexFrom(entities, 1)

\* components.resize_with(index + 1, Default::default) when index >= len,
\* then components[index] = component
SetComponent(components, index, component, default) ==
    LET len == Max(Len(components), index + 1)
    IN  [i \in 1..len |-> IF i = index + 1 THEN component
                          ELSE IF i <= Len(components) THEN components[i]
                          ELSE default]

\* the entity stored at index i (0-based) is alive
Alive(w, i) == i < Len(w.entities) /\ w.entities[i + 1].some

\* World::create_entity
CreateEntity ==
    LET reused == FindFreeIndex(ecs.entities)
        index == IF reused >= 0 THEN reused ELSE Len(ecs.entities)
        entity == [some |-> TRUE, id |-> ecs.next_entity_id, index |-> index]
    IN  /\ ecs.next_entity_id < MaxEntityIds
        /\ index < MaxEntities
        /\ ecs' = [ecs EXCEPT !.next_entity_id = @ + 1,
                              !.entities = IF index = Len(@) THEN Append(@, entity)
                                           ELSE [@ EXCEPT ![index + 1] = entity]]
        /\ lastBridge' = NoUpdate
        /\ UNCHANGED <<bridge, gpu, sim, lastGpu, notBridge>>

\* World::add_component::<TransformComponent>(entity, TransformComponent::default())
AddTransform(i) ==
    /\ Alive(ecs, i)
    /\ ecs' = [ecs EXCEPT !.transforms = SetComponent(@, i, DefaultTransform, DefaultTransform)]
    /\ lastBridge' = NoUpdate
    /\ UNCHANGED <<bridge, gpu, sim, lastGpu, notBridge>>

\* World::add_component::<PhysicsComponent>(entity, component)
AddPhysics(i, position) ==
    /\ Alive(ecs, i)
    /\ ecs' = [ecs EXCEPT !.physics = SetComponent(@, i, NewPhysics(position, 1), DefaultPhysics)]
    /\ lastBridge' = NoUpdate
    /\ UNCHANGED <<bridge, gpu, sim, lastGpu, notBridge>>

\* World::delete_entity of the entity stored at index i: the slot becomes
\* None, the components stay in their vectors
DeleteEntity(i) ==
    /\ Alive(ecs, i)
    /\ ecs' = [ecs EXCEPT !.entities[i + 1] = NoEntity]
    /\ lastBridge' = NoUpdate
    /\ UNCHANGED <<bridge, gpu, sim, lastGpu, notBridge>>

\* physics.enabled = enabled, through get_component_mut
SetEnabled(i, enabled) ==
    /\ Alive(ecs, i)
    /\ i < Len(ecs.physics)
    /\ ecs.physics[i + 1].enabled # enabled
    /\ ecs' = [ecs EXCEPT !.physics[i + 1].enabled = enabled]
    /\ lastBridge' = NoUpdate
    /\ UNCHANGED <<bridge, gpu, sim, lastGpu, notBridge>>


\* Query::fetch for (TransformComponent, PhysicsComponent): the entity stored
\* at index i is alive and get_component finds both components
Fetched(w, i) == Alive(w, i) /\ i < Len(w.transforms) /\ i < Len(w.physics)

\* PhysicsComponent::update_particle_data
UpdateParticleData(c) ==
    [c EXCEPT !.particle_data = [some |-> TRUE, position |-> c.position,
                                 velocity |-> c.velocity]]

\* the Particle of a component's cached particle data
ParticleOf(c) == [position |-> c.particle_data.position, velocity |-> c.particle_data.velocity]

\* the collection loop of update, from index i on: acc = [physics, particles,
\* pushed], pushed being the index of the entity behind every pushed particle
RECURSIVE Collect(_, _, _)
Collect(w, i, acc) ==
    IF i >= Len(w.entities) THEN acc
    ELSE IF ~(Fetched(w, i) /\ acc.physics[i + 1].enabled) THEN Collect(w, i + 1, acc)
    ELSE LET c == IF acc.physics[i + 1].particle_data.some THEN acc.physics[i + 1]
                  ELSE UpdateParticleData(acc.physics[i + 1])
         IN  Collect(w, i + 1, [physics |-> [acc.physics EXCEPT ![i + 1] = c],
                                particles |-> Append(acc.particles, ParticleOf(c)),
                                pushed |-> Append(acc.pushed, i)])

\* the write-back loop of update, from index i on, over
\* acc = [transforms, physics]
RECURSIVE WriteBack(_, _, _, _)
WriteBack(w, particles, i, acc) ==
    IF i >= Len(w.entities) THEN acc
    ELSE IF ~(Fetched(w, i) /\ acc.physics[i + 1].enabled /\ i < Len(particles))
    THEN WriteBack(w, particles, i + 1, acc)
    ELSE WriteBack(w, particles, i + 1,
                   [transforms |-> [acc.transforms EXCEPT
                                        ![i + 1].position = particles[i + 1].position],
                    physics |-> [acc.physics EXCEPT
                                     ![i + 1].position = particles[i + 1].position,
                                     ![i + 1].velocity = particles[i + 1].velocity]])

\* the halves after the device has finished every dispatch in flight
RECURSIVE CompleteAll(_)
CompleteAll(s) ==
    IF s.in_flight = {} THEN {s}
    ELSE UNION {CompleteAll(t) : t \in Completions(s, CHOOSE h \in s.in_flight : TRUE)}

\* what the entities' components hold of the simulation: the transform's
\* position, the physics component's position and velocity
Motion(w) ==
    [transforms |-> [i \in 1..Len(w.transforms) |-> w.transforms[i].position],
     physics |-> [i \in 1..Len(w.physics) |->
                     <<w.physics[i].position, w.physics[i].velocity>>]]

\* an update that returns after a failed sync with its write-back loop run
\* on the snapshot all the same
SkipFrameWritesBack(w, particles) ==
    LET back == WriteBack(w, IntegrateAll(particles), 0,
                          [transforms |-> w.transforms, physics |-> w.physics])
    IN  [w EXCEPT !.transforms = back.transforms, !.physics = back.physics]

\* the `return` of update after a failed sync_to_gpu or sync_from_gpu: the
\* world is left as the collection loop left it
SkipFrame(w, particles) == w

\* PhysicsBridgeSystem::update; fence_times_out: the fence wait of
\* get_particle_data fails.  frame_count.wrapping_add(1) stays below MaxFrames,
\* far from wrapping.
BridgeUpdate(fence_times_out) ==
    LET got == Collect(ecs, 0, [physics |-> ecs.physics, particles |-> <<>>, pushed |-> <<>>])
        collected == [ecs EXCEPT !.physics = got.physics]
        failed(g, call, result) ==
            /\ gpu' = g
            /\ lastGpu' = Outcome(call, result, g, World)
            /\ ecs' = SkipFrame(collected, got.particles)
            /\ bridge' = [bridge EXCEPT !.particles = got.particles]
            /\ lastBridge' = [op |-> "update", result |-> result, pushed |-> got.pushed,
                              returned |-> <<>>, before |-> Motion(ecs)]
    IN  /\ Running
        /\ bridge.frame_count < MaxFrames
        /\ IF ~gpu.state.is_initialized
           THEN failed(gpu, "update_particles", "InvalidOperation") /\ UNCHANGED sim
           ELSE IF Len(got.particles) * ParticleSize > gpu.buffer_size
           THEN /\ failed(RecordRecoverable(gpu, "BufferOverflow"), "update_particles",
                          "BufferOverflow")
                /\ UNCHANGED sim
           ELSE /\ sim.steps < MaxSteps
                /\ \E content \in WrittenContents(sim, got.particles) :
                     LET stepped == Dispatch(WriteInactive(sim, got.particles, content))
                     IN  IF fence_times_out
                         THEN /\ failed(RecordRecoverable(gpu, "SynchronizationError"),
                                        "get_particle_data", "SynchronizationError")
                              /\ sim' = [stepped EXCEPT !.frame = NoFrame]
                         ELSE \E done \in CompleteAll(stepped) :
                                LET returned == done.halves[done.dispatched + 1]
                                    back == WriteBack(collected, returned, 0,
                                                      [transforms |-> collected.transforms,
                                                       physics |-> collected.physics])
                                IN  /\ sim' = [done EXCEPT !.frame = NoFrame]
                                    /\ gpu' = gpu
                                    /\ lastGpu' = [Outcome("get_particle_data", "Ok", gpu, World)
                                                      EXCEPT !.framed = TRUE,
                                                             !.returned = returned,
                                                             !.expected =
                                                                 IntegrateAll(got.particles)]
                                    /\ ecs' = [collected EXCEPT !.transforms = back.transforms,
                                                                !.physics = back.physics]
                                    /\ bridge' = [particles |-> returned,
                                                  frame_count |-> bridge.frame_count + 1]
                                    /\ lastBridge' = [op |-> "update", result |-> "Ok",
                                                      pushed |-> got.pushed,
                                                      returned |-> returned,
                                                      before |-> Motion(ecs)]
        /\ UNCHANGED notBridge

\* the application initializes the physics system once, before the frames
BridgeSetup(particle_count) ==
    /\ ~gpu.state.is_initialized
    /\ Initialize(particle_count, <<"none">>)

BridgeNext ==
    \/ \E particle_count \in ParticleCounts : BridgeSetup(particle_count)
    \/ CreateEntity
    \/ \E i \in 0..MaxEntities - 1 : AddTransform(i)
    \/ \E i \in 0..MaxEntities - 1, position \in Positions : AddPhysics(i, position)
    \/ \E i \in 0..MaxEntities - 1 : DeleteEntity(i)
    \/ \E i \in 0..MaxEntities - 1 : SetEnabled(i, FALSE)
    \/ \E fence_times_out \in BOOLEAN : BridgeUpdate(fence_times_out)


\* ------------------------------------------------------------------------
\* SpatialHash (physics/spatial.rs)
\* ------------------------------------------------------------------------

MaxObjects == 3      \* object indices 0..MaxObjects-1

MaxInserts == 3      \* insert calls between two clears

MaxClears == 1       \* clear calls

MaxUpdates == 2      \* ParallelBroadPhase::update calls

CELL_SIZE == 10

Objects == 0..MaxObjects - 1

\* the x coordinates the bounds are drawn from; every box spans y and z in 0..1
XCoords == {5, 15, 18, 38}

AABBs ==
    {[min |-> <<x[1], 0, 0>>, max |-> <<x[2], 1, 1>>] : x \in {y \in XCoords \X XCoords : y[1] <= y[2]}}

NoBox == [min |-> <<1, 1, 1>>, max |-> <<0, 0, 0>>]

RECURSIVE Pow2(_)
Pow2(n) == IF n = 0 THEN 1 ELSE 2 * Pow2(n - 1)

\* the Vec<usize> of a grid cell, up to the order of its elements: how many
\* times each object index is in it
EmptyList == [o \in Objects |-> 0]

Push(list, obj) == [list EXCEPT ![obj] = @ + 1]

\* the capacity a std HashMap (hashbrown) has after reserving room for n keys
CapacityFor(n) ==
    IF n = 0 THEN 0
    ELSE IF n < 4 THEN 3
    ELSE IF n < 8 THEN 7
    ELSE LET buckets == CHOOSE b \in {Pow2(k) : k \in 4..10} :
                            /\ b >= (n * 8) \div 7
                            /\ b \div 2 < (n * 8) \div 7
         IN  7 * (buckets \div 8)

\* the map grows when a key is added to a full table
Reserve(capacity, n) == IF n > capacity THEN CapacityFor(n) ELSE capacity

\* SpatialHash::new; cell_size is CELL_SIZE * 2^cell_exp
NewSpatialHash ==
    [cell_exp |-> 0, grid |-> <<>>, capacity |-> 0, object_cells |-> <<>>,
     total_objects |-> 0, cells_used |-> 0]

\* SpatialHash::clear: HashMap::clear keeps the allocation, cell_size stays
ClearHash(s) ==
    [s EXCEPT !.grid = <<>>, !.object_cells = <<>>, !.total_objects = 0, !.cells_used = 0]

\* (x / cell_size).floor() as i32
CellCoord(x, cell_exp) ==
    IF cell_exp >= 0 THEN x \div (CELL_SIZE * Pow2(cell_exp))
    ELSE (x * Pow2(0 - cell_exp)) \div CELL_SIZE

position_to_cell(s, position) ==
    <<CellCoord(position[1], s.cell_exp), CellCoord(position[2], s.cell_exp),
      CellCoord(position[3], s.cell_exp)>>

\* the cells the three nested loops of insert visit, in their order
CellsBetween(min_cell, max_cell) ==
    LET nx == Max(0, max_cell[1] - min_cell[1] + 1)
        ny == Max(0, max_cell[2] - min_cell[2] + 1)
        nz == Max(0, max_cell[3] - min_cell[3] + 1)
    IN  [k \in 1..(nx * ny * nz) |->
            <<min_cell[1] + (k - 1) \div (ny * nz),
              min_cell[2] + (((k - 1) \div nz) % ny),
              min_cell[3] + ((k - 1) % nz)>>]

\* cells_used / capacity > 0.75; the factor is 0.0 with no capacity
LoadAbove(s) == s.capacity # 0 /\ 4 * s.cells_used > 3 * s.capacity

\* cells_used / capacity < 0.75 / 4.0
LoadBelow(s) == s.capacity = 0 \/ 16 * s.cells_used < 3 * s.capacity

\* a push that replaces the list `found` it looked up in the cell
StoreToCell(s, cell, object_index, found) ==
    LET fresh == cell \notin DOMAIN s.grid
    IN  [s EXCEPT !.grid = [c \in DOMAIN s.grid \cup {cell} |->
                               IF c = cell THEN Push(found, object_index) ELSE s.grid[c]],
                  !.capacity = IF fresh THEN Reserve(@, Cardinality(DOMAIN s.grid) + 1) ELSE @]

LookUp(s, cell) == IF cell \in DOMAIN s.grid THEN s.grid[cell] ELSE EmptyList

insert_to_cell(s, cell, object_index) ==
    LET counted == IF cell \notin DOMAIN s.grid THEN [s EXCEPT !.cells_used = @ + 1] ELSE s
    IN  StoreToCell(counted, cell, object_index, LookUp(s, cell))

RECURSIVE Occurrences(_, _, _)
Occurrences(grid, cells, obj) ==
    IF cells = {} THEN 0
    ELSE LET c == CHOOSE c \in cells : TRUE
         IN  grid[c][obj] + Occurrences(grid, cells \ {c}, obj)

\* the rebuild of resize: every entry of the old grid puts its object once
\* more into each cell of object_cells[obj_idx]
Rebuild(s) ==
    LET tracked == {o \in Objects : o < Len(s.object_cells)}
        times(o) == Occurrences(s.grid, DOMAIN s.grid, o)
        cellsOf(o) == {s.object_cells[o + 1][k] : k \in 1..Len(s.object_cells[o + 1])}
        listed(o, c) == Cardinality({k \in 1..Len(s.object_cells[o + 1]) :
                                         s.object_cells[o + 1][k] = c})
        keys == UNION {cellsOf(o) : o \in {t \in tracked : times(t) > 0}}
    IN  [s EXCEPT !.grid = [c \in keys |->
                               [o \in Objects |-> IF o \in tracked THEN times(o) * listed(o, c)
                                                  ELSE 0]],
                  !.capacity = Reserve(CapacityFor(s.capacity), Cardinality(keys)),
                  !.cells_used = Cardinality(keys)]

resize(s) ==
    IF LoadAbove(s) THEN Rebuild([s EXCEPT !.cell_exp = @ + 1])
    ELSE IF LoadBelow(s) THEN Rebuild([s EXCEPT !.cell_exp = @ - 1])
    ELSE s

\* object_cells.resize_with(object_index + 1, Vec::new), then clear of the entry
ClearObjectCells(s, object_index) ==
    [s EXCEPT !.object_cells =
        [k \in 1..Max(Len(s.object_cells), object_index + 1) |->
            IF k = object_index + 1 \/ k > Len(s.object_cells) THEN <<>>
            ELSE s.object_cells[k]]]

RECURSIVE InsertCells(_, _, _)
InsertCells(s, cells, object_index) ==
    IF cells = <<>> THEN s
    ELSE LET put == insert_to_cell(s, Head(cells), object_index)
         IN  InsertCells([put EXCEPT !.object_cells[object_index + 1] = Append(@, Head(cells))],
                         Tail(cells), object_index)

insert(s, object_index, aabb) ==
    LET cells == CellsBetween(position_to_cell(s, aabb.min), position_to_cell(s, aabb.max))
        filled == InsertCells(ClearObjectCells(s, object_index), cells, object_index)
    IN  resize([filled EXCEPT !.total_objects = @ + 1])

get_potential_pairs(s) ==
    UNION {{<<Min(a, b), Max(a, b)>> : a, b \in {o \in Objects : s.grid[c][o] > 0}}
           \ {<<o, o>> : o \in {t \in Objects : s.grid[c][t] < 2}} : c \in DOMAIN s.grid}

NoSpatialCall == [op |-> "none"]

SpatialInit ==
    /\ sh = NewSpatialHash
    /\ boxes = [aabb |-> [o \in Objects |-> NoBox], distinct |-> TRUE, clears |-> 0]
    /\ par = [phase |-> "idle", updates |-> 0]
    /\ lastSpatial = NoSpatialCall

CellsListing(s, obj) == {c \in DOMAIN s.grid : s.grid[c][obj] > 0}

SpatialInsert(object_index, aabb) ==
    /\ sh.total_objects < MaxInserts
    /\ sh' = insert(sh, object_index, aabb)
    /\ boxes' = [boxes EXCEPT !.aabb[object_index] = aabb,
                              !.distinct = @ /\ boxes.aabb[object_index] = NoBox]
    /\ lastSpatial' = [op |-> "insert", object_index |-> object_index,
                       min_cell |-> position_to_cell(sh, aabb.min),
                       max_cell |-> position_to_cell(sh, aabb.max),
                       previous |-> CellsListing(sh, object_index),
                       cell_exp |-> sh.cell_exp]
    /\ UNCHANGED <<par, notSpatial>>

SpatialClear ==
    /\ boxes.clears < MaxClears
    /\ sh' = ClearHash(sh)
    /\ boxes' = [aabb |-> [o \in Objects |-> NoBox], distinct |-> TRUE,
                 clears |-> boxes.clears + 1]
    /\ lastSpatial' = [op |-> "clear"]
    /\ UNCHANGED <<par, notSpatial>>

SpatialNext ==
    \/ \E object_index \in Objects, aabb \in AABBs : SpatialInsert(object_index, aabb)
    \/ SpatialClear

\* ------------------------------------------------------------------------
\* ParallelBroadPhase::update (physics/spatial.rs): the inserts of one pass
\* run on rayon workers over the one SpatialHash, with no lock between them.
\* An insert is a sequence of steps: it prepares its object_cells entry, then
\* for each cell looks the cell's list up and stores the pushed list, then
\* counts itself and resizes.
\* ------------------------------------------------------------------------

PositionLists == {<<a>> : a \in AABBs} \cup {<<a, b>> : a, b \in AABBs}

RECURSIVE InsertAll(_, _, _)
InsertAll(s, positions, i) ==
    IF i >= Len(positions) THEN s
    ELSE InsertAll(insert(s, i, positions[i + 1]), positions, i + 1)

Task(pc, cells, found, fresh) == [pc |-> pc, cells |-> cells, found |-> found, fresh |-> fresh]

\* update: clear, then one insert per position is handed to the workers
ParUpdate(positions) ==
    /\ par.phase = "idle"
    /\ par.updates < MaxUpdates
    /\ sh' = ClearHash(sh)
    /\ par' = [phase |-> "inserting", updates |-> par.updates + 1, positions |-> positions,
               start |-> ClearHash(sh),
               tasks |-> [i \in 1..Len(positions) |-> Task("begin", <<>>, EmptyList, FALSE)]]
    /\ lastSpatial' = [op |-> "inserting"]
    /\ UNCHANGED <<boxes, notSpatial>>

\* insert, up to the loops: the object_cells entry and the cell range
ParInsertBegin(i) ==
    /\ par.phase = "inserting"
    /\ i \in 1..Len(par.tasks)
    /\ par.tasks[i].pc = "begin"
    /\ LET aabb == par.positions[i]
           cells == CellsBetween(position_to_cell(sh, aabb.min), position_to_cell(sh, aabb.max))
       IN  /\ sh' = ClearObjectCells(sh, i - 1)
           /\ par' = [par EXCEPT !.tasks[i] =
                         Task(IF cells = <<>> THEN "finish" ELSE "look", cells, EmptyList, FALSE)]
    /\ UNCHANGED <<boxes, lastSpatial, notSpatial>>

\* insert_to_cell: contains_key and the lookup of the cell's list
ParLookUp(i) ==
    /\ par.phase = "inserting"
    /\ i \in 1..Len(par.tasks)
    /\ par.tasks[i].pc = "look"
    /\ LET cell == Head(par.tasks[i].cells)
       IN  par' = [par EXCEPT !.tasks[i].pc = "push",
                              !.tasks[i].found = LookUp(sh, cell),
                              !.tasks[i].fresh = cell \notin DOMAIN sh.grid]
    /\ UNCHANGED <<sh, boxes, lastSpatial, notSpatial>>

\* insert_to_cell: the count of a new cell and the push, then the push onto
\* object_cells
ParPush(i) ==
    /\ par.phase = "inserting"
    /\ i \in 1..Len(par.tasks)
    /\ par.tasks[i].pc = "push"
    /\ LET cell == Head(par.tasks[i].cells)
           counted == IF par.tasks[i].fresh THEN [sh EXCEPT !.cells_used = @ + 1] ELSE sh
           stored == StoreToCell(counted, cell, i - 1, par.tasks[i].found)
           rest == Tail(par.tasks[i].cells)
       IN  /\ sh' = [stored EXCEPT !.object_cells[i] = Append(@, cell)]
           /\ par' = [par EXCEPT !.tasks[i] =
                         Task(IF rest = <<>> THEN "finish" ELSE "look", rest, EmptyList, FALSE)]
    /\ UNCHANGED <<boxes, lastSpatial, notSpatial>>

\* insert, after the loops: total_objects += 1 and resize
ParInsertFinish(i) ==
    /\ par.phase = "inserting"
    /\ i \in 1..Len(par.tasks)
    /\ par.tasks[i].pc = "finish"
    /\ sh' = resize([sh EXCEPT !.total_objects = @ + 1])
    /\ par' = [par EXCEPT !.tasks[i].pc = "done"]
    /\ UNCHANGED <<boxes, lastSpatial, notSpatial>>

\* update, after for_each has returned: get_potential_pairs
ParCollect ==
    /\ par.phase = "inserting"
    /\ \A i \in 1..Len(par.tasks) : par.tasks[i].pc = "done"
    /\ lastSpatial' = [op |-> "update", pairs |-> get_potential_pairs(sh),
                       positions |-> par.positions,
                       sequential |-> get_potential_pairs(InsertAll(par.start, par.positions, 0)),
                       listed |-> [i \in 1..Len(par.positions) |-> CellsListing(sh, i - 1)]]
    /\ par' = [phase |-> "idle", updates |-> par.updates]
    /\ UNCHANGED <<sh, boxes, notSpatial>>

ParallelNext ==
    \/ \E positions \in PositionLists : ParUpdate(positions)
    \/ \E i \in 1..2 : ParInsertBegin(i)
    \/ \E i \in 1..2 : ParLookUp(i)
    \/ \E i \in 1..2 : ParPush(i)
    \/ \E i \in 1..2 : ParInsertFinish(i)
    \/ ParCollect

\* ------------------------------------------------------------------------
\* detect_collision (physics/collision.rs) between rigid bodies.  Every
\* coordinate is an integer and every orientation the identity: the columns
\* of Mat3::from_quat are the unit axes and mul_vec3 leaves a vector as it is.
\* ------------------------------------------------------------------------

MaxCoord == 2        \* body centres have x in -MaxCoord..MaxCoord

MaxHalfExtent == 2   \* bounding_box.w is in 1..MaxHalfExtent

Zero3 == <<0, 0, 0>>

Add3(a, b) == <<a[1] + b[1], a[2] + b[2], a[3] + b[3]>>

Sub3(a, b) == <<a[1] - b[1], a[2] - b[2], a[3] - b[3]>>

Scale3(a, k) == <<a[1] * k, a[2] * k, a[3] * k>>

Dot(a, b) == a[1] * b[1] + a[2] * b[2] + a[3] * b[3]

Abs(x) == IF x < 0 THEN 0 - x ELSE x

\* PhysicsObject::RigidBody, with no rotation
RigidBody(position, velocity, mass, half_size) ==
    [position |-> position, velocity |-> velocity, acceleration |-> Zero3,
     mass |-> mass, bounding_box |-> half_size]

\* r1.col(0..2) and r2.col(0..2)
Axes == <<<<1, 0, 0>>, <<0, 1, 0>>, <<0, 0, 1>>, <<1, 0, 0>>, <<0, 1, 0>>, <<0, 0, 1>>>>

local_corners ==
    <<<<1, 1, 1>>, <<-1, 1, 1>>, <<1, -1, 1>>, <<1, 1, -1>>,
      <<-1, -1, 1>>, <<-1, 1, -1>>, <<1, -1, -1>>, <<-1, -1, -1>>>>

generate_box_corners(pos, half_size) ==
    [i \in 1..8 |-> Add3(pos, Scale3(local_corners[i], half_size))]

project_box(pos, half_size, axis) ==
    LET corners == generate_box_corners(pos, half_size)
        projs == {Dot(corners[i], axis) : i \in 1..8}
    IN  [min |-> CHOOSE m \in projs : \A q \in projs : m <= q,
         max |-> CHOOSE m \in projs : \A q \in projs : m >= q]

point_in_box(point, box_pos, half_size) ==
    \A d \in 1..3 : Abs(point[d] - box_pos[d]) <= half_size

\* BoundingVolume::intersects: the axes of A, then the axes of B
intersects(center1, half1, center2, half2) ==
    LET t == Sub3(center2, center1)
    IN  /\ \A i \in 1..3 : ~(Abs(t[i]) > half1 + half2)
        /\ \A i \in 1..3 : ~(Abs(Dot(t, Axes[3 + i])) > half1 + half2)

\* min_penetration = INFINITY, collision_normal = ZERO before the loop
NoAxisYet == [separated |-> FALSE, infinite |-> TRUE, penetration |-> 0, normal |-> Zero3]

\* the loop over the six axes: `return None` on a positive dist, else the
\* first axis of the least penetration
RECURSIVE LeastPenetration(_, _, _, _, _, _)
LeastPenetration(p1, half1, p2, half2, k, best) ==
    IF k > Len(Axes) THEN best
    ELSE LET axis == Axes[k]
             p1_proj == project_box(p1, half1, axis)
             p2_proj == project_box(p2, half2, axis)
             dist == p2_proj.min - p1_proj.max
             penetration == 0 - dist
         IN  IF dist > 0 THEN [best EXCEPT !.separated = TRUE]
             ELSE LeastPenetration(p1, half1, p2, half2, k + 1,
                      IF best.infinite \/ penetration < best.penetration
                      THEN [separated |-> FALSE, infinite |-> FALSE,
                            penetration |-> penetration, normal |-> axis]
                      ELSE best)

NoManifold == [some |-> FALSE]

\* the corners of the first box inside the second
CornersInside(pos, half_size, box_pos, box_half) ==
    SelectSeq(generate_box_corners(pos, half_size),
              LAMBDA corner : point_in_box(corner, box_pos, box_half))

detect_rigid_rigid_collision(p1, bb1, p2, bb2) ==
    IF ~intersects(p1, bb1, p2, bb2) THEN NoManifold
    ELSE LET least == LeastPenetration(p1, bb1, p2, bb2, 1, NoAxisYet)
             contact_points == CornersInside(p1, bb1, p2, bb2) \o CornersInside(p2, bb2, p1, bb1)
         IN  IF least.separated THEN NoManifold
             ELSE IF contact_points # <<>>
                  THEN [some |-> TRUE, normal |-> least.normal,
                        penetration |-> least.penetration, contact_points |-> contact_points]
                  ELSE NoManifold

detect_collision(obj1, obj2) ==
    detect_rigid_rigid_collision(obj1.position, obj1.bounding_box,
                                 obj2.position, obj2.bounding_box)

CollisionBodies ==
    {RigidBody(<<x, y, 0>>, Zero3, 1, half) :
        x \in (0 - MaxCoord)..MaxCoord, y \in 0..1, half \in 1..MaxHalfExtent}

CollisionInit == narrow = [op |-> "none"]

DetectCollision(obj1, obj2) ==
    /\ narrow' = [op |-> "detect_collision", obj1 |-> obj1, obj2 |-> obj2,
                  result |-> detect_collision(obj1, obj2)]
    /\ UNCHANGED notCollision

CollisionNext == \E obj1 \in CollisionBodies, obj2 \in CollisionBodies : DetectCollision(obj1, obj2)

\* ------------------------------------------------------------------------
\* PhysicsWorld (physics/physics.rs), its constraints (constraints.rs) and
\* its IslandSolver and ConstraintSolver (solver.rs), over rigid bodies that
\* do not rotate.  Velocities and gravity are multiples of RelaxationInverse,
\* so that every product with relaxation is a whole number.
\* ------------------------------------------------------------------------

MaxBodies == 3          \* add_object calls

MaxConstraints == 2     \* add_constraint calls

MaxPotentialPairs == 1  \* pairs the broad phase hands to one update

MIN_ISLAND_SIZE == 4

MAX_THREAD_ISLANDS == 8

DefaultNumIterations == 10

RelaxationInverse == 5  \* relaxation is 0.2

WorldBodies ==
    {RigidBody(Zero3, Zero3, 1, 1), RigidBody(<<3, 0, 0>>, Zero3, 1, 1),
     RigidBody(<<3, 0, 0>>, <<5, 0, 0>>, 1, 1)}

Gravities == {Zero3, <<0, -5, 0>>}

NumIterations == {1, DefaultNumIterations}

DeltaTimes == {1}

DistanceConstraint(object1_index, object2_index, rest_distance) ==
    [kind |-> "Distance", object1_index |-> object1_index, object2_index |-> object2_index,
     rest_distance |-> rest_distance]

\* VolumeConstraint::new(object_index, stiffness); it acts on deformable bodies
VolumeConstraint(object_index) ==
    [kind |-> "Volume", object1_index |-> object_index, object2_index |-> object_index,
     rest_distance |-> 0]

\* CollisionConstraint::new: manifold is None
CollisionConstraint(object1_index, object2_index) ==
    [kind |-> "Collision", object1_index |-> object1_index, object2_index |-> object2_index,
     rest_distance |-> 0, manifold |-> NoManifold]

Constraints == {DistanceConstraint(0, 1, 3), VolumeConstraint(0), CollisionConstraint(0, 1)}

is_collision_constraint(c) == c.kind = "Collision"

\* PhysicsWorld::new(gravity)
NewPhysicsWorld(gravity) ==
    [objects |-> <<>>, gravity |-> gravity, constraints |-> <<>>,
     num_iterations |-> DefaultNumIterations, substeps |-> 1]

\* Vec3::length, exact for the separations along one axis
Length(v) == CHOOSE r \in 0..Dot(v, v) : r * r <= Dot(v, v) /\ Dot(v, v) < (r + 1) * (r + 1)

Div3(a, k) == <<a[1] \div k, a[2] \div k, a[3] \div k>>

\* Constraint::project; a CollisionConstraint without a manifold and a
\* VolumeConstraint on a rigid body change nothing
project(c, objects) ==
    IF c.kind # "Distance" THEN objects
    ELSE LET p1 == objects[c.object1_index + 1].position
             p2 == objects[c.object2_index + 1].position
             m1 == objects[c.object1_index + 1].mass
             m2 == objects[c.object2_index + 1].mass
             delta == Sub3(p2, p1)
             distance == Length(delta)
             total_mass == m1 + m2
         IN  IF distance = 0 \/ total_mass = 0 THEN objects
             ELSE LET correction == Div3(Scale3(delta, distance - c.rest_distance), distance)
                      moved1 == [objects EXCEPT ![c.object1_index + 1].position =
                                    Add3(@, Div3(Scale3(correction, m2), total_mass))]
                  IN  [moved1 EXCEPT ![c.object2_index + 1].position =
                          Sub3(@, Div3(Scale3(correction, m1), total_mass))]

\* the objects a constraint names
NamedObjects(constraint, world) == <<constraint.object1_index, constraint.object2_index>>

\* IslandSolver::get_connected_objects: the placeholder returns no object
get_connected_objects(constraint, world) == <<>>

\* island_connections: for every object, the constraints that name it
IslandConnections(world) ==
    [o \in 1..Len(world.objects) |->
        SelectSeq([i \in 1..Len(world.constraints) |-> i - 1],
                  LAMBDA i : \E k \in 1..Len(get_connected_objects(world.constraints[i + 1], world)) :
                                 get_connected_objects(world.constraints[i + 1], world)[k] = o - 1)]

NewIsland == [objects |-> <<>>, constraints |-> <<>>]

RECURSIVE parallel_dfs(_, _, _, _)
RECURSIVE VisitConstraints(_, _, _, _)
RECURSIVE VisitConnected(_, _, _, _)
parallel_dfs(object_index, world, connections, st) ==
    IF st.visited[object_index + 1] THEN st
    ELSE VisitConstraints(connections[object_index + 1], world, connections,
             [visited |-> [st.visited EXCEPT ![object_index + 1] = TRUE],
              island |-> [st.island EXCEPT !.objects = Append(@, object_index)]])

VisitConstraints(todo, world, connections, st) ==
    IF todo = <<>> THEN st
    ELSE VisitConstraints(Tail(todo), world, connections,
             VisitConnected(get_connected_objects(world.constraints[Head(todo) + 1], world),
                            world, connections,
                            [st EXCEPT !.island.constraints = Append(@, Head(todo))]))

VisitConnected(todo, world, connections, st) ==
    IF todo = <<>> THEN st
    ELSE VisitConnected(Tail(todo), world, connections,
             IF st.visited[Head(todo) + 1] THEN st
             ELSE parallel_dfs(Head(todo), world, connections, st))

\* the for_each over the objects, its bodies run in the order `order`
RECURSIVE CollectIslands(_, _, _, _, _)
CollectIslands(order, world, connections, visited, islands) ==
    IF order = <<>> THEN islands
    ELSE IF visited[Head(order) + 1]
         THEN CollectIslands(Tail(order), world, connections, visited, islands)
         ELSE LET st == parallel_dfs(Head(order), world, connections,
                                     [visited |-> visited, island |-> NewIsland])
              IN  CollectIslands(Tail(order), world, connections, st.visited,
                                 IF st.island.objects # <<>> THEN Append(islands, st.island)
                                 ELSE islands)

build_islands(world, order) ==
    CollectIslands(order, world, IslandConnections(world),
                   [o \in 1..Len(world.objects) |-> FALSE], <<>>)

\* the orders in which the parallel loop over n objects can run its bodies
Orders(n) ==
    {order \in [1..n -> 0..n - 1] : \A a, b \in 1..n : a # b => order[a] # order[b]}

RECURSIVE GroupFrom(_, _, _, _)
GroupFrom(islands, grouped, current_group, current_size) ==
    IF islands = <<>>
    THEN IF current_group # <<>> THEN Append(grouped, current_group) ELSE grouped
    ELSE LET island == Head(islands)
         IN  IF Len(island.objects) >= MIN_ISLAND_SIZE
             THEN GroupFrom(Tail(islands), Append(grouped, <<island>>), current_group, current_size)
             ELSE LET group == Append(current_group, island)
                      size == current_size + Len(island.objects)
                  IN  IF size >= MIN_ISLAND_SIZE \/ Len(group) >= MAX_THREAD_ISLANDS
                      THEN GroupFrom(Tail(islands), Append(grouped, group), <<>>, 0)
                      ELSE GroupFrom(Tail(islands), grouped, group, size)

group_islands(islands) == GroupFrom(islands, <<>>, <<>>, 0)

RECURSIVE Flatten(_)
Flatten(seqs) == IF seqs = <<>> THEN <<>> ELSE Head(seqs) \o Flatten(Tail(seqs))

\* the sub-world of one island group: clones of its objects and constraints
LocalWorld(world, island_group) ==
    [world EXCEPT
        !.objects = Flatten([g \in 1..Len(island_group) |->
                        [k \in 1..Len(island_group[g].objects) |->
                            world.objects[island_group[g].objects[k] + 1]]]),
        !.constraints = Flatten([g \in 1..Len(island_group) |->
                            [k \in 1..Len(island_group[g].constraints) |->
                                world.constraints[island_group[g].constraints[k] + 1]]]),
        !.substeps = 1]

apply_position_corrections(objects, delta_time) ==
    [o \in 1..Len(objects) |->
        [objects[o] EXCEPT
            !.position = Add3(@, Div3(Scale3(objects[o].velocity, delta_time), RelaxationInverse)),
            !.acceleration = Zero3]]

RECURSIVE ProjectAll(_, _)
ProjectAll(constraints, objects) ==
    IF constraints = <<>> THEN objects
    ELSE ProjectAll(Tail(constraints), project(Head(constraints), objects))

\* one chunk of constraints meets one chunk of objects: there are at most
\* MAX_THREAD_ISLANDS of each, and no chunk at all of an empty list
RECURSIVE solve_island_group(_, _, _)
solve_island_group(world, delta_time, iterations) ==
    IF iterations = 0 THEN world.objects
    ELSE LET projected == IF world.constraints = <<>> \/ world.objects = <<>> THEN world.objects
                          ELSE ProjectAll(world.constraints, world.objects)
         IN  solve_island_group([world EXCEPT !.objects =
                                     apply_position_corrections(projected, delta_time)],
                                delta_time, iterations - 1)

\* results.iter().zip(islands): the k-th result meets the k-th island
RECURSIVE MergeZip(_, _, _, _, _)
MergeZip(objects, results, islands, k, offset) ==
    IF k > Min(Len(results), Len(islands)) THEN [objects |-> objects, panicked |-> FALSE]
    ELSE IF offset + Len(islands[k].objects) > Len(results[k])
         THEN [objects |-> objects, panicked |-> TRUE]
         ELSE MergeZip([o \in 1..Len(objects) |->
                             IF \E l \in 1..Len(islands[k].objects) : islands[k].objects[l] = o - 1
                             THEN results[k][offset + (CHOOSE l \in 1..Len(islands[k].objects) :
                                                          islands[k].objects[l] = o - 1)]
                             ELSE objects[o]],
                         results, islands, k + 1, offset + Len(islands[k].objects))

\* a merge that reads every object from the slot after its own
MergeShifted(objects, results, islands) ==
    IF results = <<>> \/ islands = <<>> THEN [objects |-> objects, panicked |-> FALSE]
    ELSE [objects |-> [o \in 1..Len(objects) |->
                          IF o - 1 = islands[1].objects[1]
                          THEN results[1][(1 % Len(results[1])) + 1]
                          ELSE objects[o]],
          panicked |-> FALSE]

merge_results(objects, results, islands) == MergeZip(objects, results, islands, 1, 0)

solve_constraints(world, delta_time, order) ==
    LET islands == build_islands(world, order)
        grouped_islands == group_islands(islands)
        results == [g \in 1..Len(grouped_islands) |->
                       solve_island_group(LocalWorld(world, grouped_islands[g]), delta_time,
                                          world.num_iterations)]
    IN  merge_results(world.objects, results, islands)

parallel_update_positions(world, delta_time) ==
    [o \in 1..Len(world.objects) |->
        LET velocity == Add3(Add3(world.objects[o].velocity, Scale3(world.gravity, delta_time)),
                             Scale3(world.objects[o].acceleration, delta_time))
        IN  [world.objects[o] EXCEPT !.velocity = velocity,
                                     !.position = Add3(@, Scale3(velocity, delta_time)),
                                     !.acceleration = Zero3]]

\* the pairs the broad phase can hand over: its parallel insertion pass is
\* unsynchronised, so any set of pairs (i, j), i <= j, is an outcome; the
\* model takes the sets of at most MaxPotentialPairs pairs
PotentialPairs(n) ==
    {pairs \in SUBSET {p \in (0..n - 1) \X (0..n - 1) : p[1] <= p[2]} :
        Cardinality(pairs) <= MaxPotentialPairs}

RECURSIVE SeqOfPairs(_)
SeqOfPairs(pairs) ==
    IF pairs = {} THEN <<>>
    ELSE LET p == CHOOSE p \in pairs : \A q \in pairs : p[1] < q[1] \/ (p[1] = q[1] /\ p[2] <= q[2])
         IN  <<p>> \o SeqOfPairs(pairs \ {p})

parallel_collision_detection(objects, potential_collisions) ==
    LET hits == SelectSeq(SeqOfPairs(potential_collisions),
                          LAMBDA p : detect_collision(objects[p[1] + 1], objects[p[2] + 1]).some)
    IN  [k \in 1..Len(hits) |-> CollisionConstraint(hits[k][1], hits[k][2])]

\* a clean-up that leaves the constraint list as the solver saw it
KeepAll(constraints) == constraints

\* constraints.retain(|c| !c.is_collision_constraint())
retain(constraints) == SelectSeq(constraints, LAMBDA c : ~is_collision_constraint(c))

\* parallel_update_velocities changes deformable bodies only
sub_update(world, delta_time, order, potential_collisions) ==
    LET moved == [world EXCEPT !.objects = parallel_update_positions(world, delta_time)]
        collision_constraints == parallel_collision_detection(moved.objects, potential_collisions)
        extended == [moved EXCEPT !.constraints = @ \o collision_constraints]
        solved == solve_constraints(extended, delta_time, order)
    IN  [world |-> [extended EXCEPT !.objects = solved.objects,
                                    !.constraints = retain(extended.constraints)],
         panicked |-> solved.panicked,
         synthesized |-> Len(collision_constraints)]

\* the driver builds the world, then runs one operation on it
Building == lastWorld.op \in {"new", "configure", "add"}

WorldInit ==
    /\ pw = NewPhysicsWorld(Zero3)
    /\ registered = <<>>
    /\ lastWorld = [op |-> "new"]

\* the driver constructs the world with its gravity and sets num_iterations
Configure(gravity, num_iterations) ==
    /\ lastWorld.op = "new"
    /\ pw' = [NewPhysicsWorld(gravity) EXCEPT !.num_iterations = num_iterations]
    /\ lastWorld' = [op |-> "configure"]
    /\ UNCHANGED <<registered, notWorld>>

AddObject(object) ==
    /\ Building
    /\ Len(pw.objects) < MaxBodies
    /\ pw' = [pw EXCEPT !.objects = Append(@, object)]
    /\ lastWorld' = [op |-> "add"]
    /\ UNCHANGED <<registered, notWorld>>

AddConstraint(constraint) ==
    /\ Building
    /\ Len(registered) < MaxConstraints
    /\ pw' = [pw EXCEPT !.constraints = Append(@, constraint)]
    /\ registered' = Append(registered, constraint)
    /\ lastWorld' = [op |-> "add"]
    /\ UNCHANGED notWorld

BuildIslands(order) ==
    /\ Building
    /\ lastWorld' = [op |-> "build_islands",
                     islands |-> build_islands(pw, order)]
    /\ UNCHANGED <<pw, registered, notWorld>>

SolveConstraints(delta_time, order) ==
    /\ Building
    /\ LET solved == solve_constraints(pw, delta_time, order)
       IN  /\ pw' = [pw EXCEPT !.objects = solved.objects]
           /\ lastWorld' = [op |-> "solve_constraints",
                            before |-> pw, panicked |-> solved.panicked]
    /\ UNCHANGED <<registered, notWorld>>

\* update: substeps sub_updates of delta_time / substeps each; substeps is 1
\* since new
WorldUpdate(delta_time, order, potential_collisions) ==
    /\ Building
    /\ pw.substeps = 1
    /\ LET stepped == sub_update(pw, delta_time \div pw.substeps, order, potential_collisions)
       IN  /\ pw' = stepped.world
           /\ lastWorld' = [op |-> "update",
                            before |-> pw, panicked |-> stepped.panicked,
                            synthesized |-> stepped.synthesized]
    /\ UNCHANGED <<registered, notWorld>>

WorldNext ==
    \/ \E gravity \in Gravities, num_iterations \in NumIterations : Configure(gravity, num_iterations)
    \/ \E object \in WorldBodies : AddObject(object)
    \/ \E constraint \in Constraints : AddConstraint(constraint)
    \/ \E order \in Orders(Len(pw.objects)) : BuildIslands(order)
    \/ \E delta_time \in DeltaTimes, order \in Orders(Len(pw.objects)) :
           SolveConstraints(delta_time, order)
    \/ \E delta_time \in DeltaTimes, order \in Orders(Len(pw.objects)),
          potential_collisions \in PotentialPairs(Len(pw.objects)) :
           WorldUpdate(delta_time, order, potential_collisions)

\* ------------------------------------------------------------------------
\* IslandSolver::build_islands (physics/solver.rs), one step at a time: the
\* bodies of the parallel for_each interleave at every read and every write
\* of the visited bitmap
\* ------------------------------------------------------------------------

MaxIslandObjects == 3   \* objects of the world handed to build_islands

\* the constraints 0-1, 1-2, ... of a world of n objects, the first m of them
ChainsOf(n) == {[k \in 1..m |-> DistanceConstraint(k - 1, k, 3)] : m \in 0..n - 1}

IslandWorlds ==
    UNION {{[NewPhysicsWorld(Zero3) EXCEPT
                 !.objects = [o \in 1..n |-> RigidBody(Zero3, Zero3, 1, 1)],
                 !.constraints = constraints] : constraints \in ChainsOf(n)} :
           n \in 1..MaxIslandObjects}

IslandsInit == solver = [phase |-> "idle"]

\* what a traversal has still to do, first item first
EnterItem(object_index) == [kind |-> "enter", index |-> object_index]

ClaimItem(object_index) == [kind |-> "claim", index |-> object_index]

ConstraintItem(constraint_index) == [kind |-> "constraint", index |-> constraint_index]

TestItem(connected) == [kind |-> "test", index |-> connected]

\* build_islands up to the parallel loop: visited all false, the connection
\* graph built, no island pushed
BeginBuild(world) ==
    /\ solver.phase = "idle"
    /\ solver' = [phase |-> "building", world |-> world,
                  visited |-> [o \in 1..Len(world.objects) |-> FALSE],
                  island_connections |-> IslandConnections(world),
                  tasks |-> [o \in 1..Len(world.objects) |->
                                [pc |-> "start", agenda |-> <<>>, island |-> NewIsland]],
                  island_indices |-> <<>>]
    /\ UNCHANGED notIslands

\* the loop body of object i reads visited[i]
TaskStart(i) ==
    /\ solver.phase = "building"
    /\ i < Len(solver.tasks)
    /\ solver.tasks[i + 1].pc = "start"
    /\ solver' = [solver EXCEPT !.tasks[i + 1] =
                      IF solver.visited[i + 1] THEN [@ EXCEPT !.pc = "done"]
                      ELSE [@ EXCEPT !.pc = "dfs", !.agenda = <<EnterItem(i)>>]]
    /\ UNCHANGED notIslands

\* one step of parallel_dfs in the loop body of object i: the read of
\* visited on entry, the claim (visited set, object pushed), one constraint
\* of the object, or the read of visited for a connected object
DfsStep(i) ==
    /\ solver.phase = "building"
    /\ i < Len(solver.tasks)
    /\ solver.tasks[i + 1].pc = "dfs"
    /\ solver.tasks[i + 1].agenda # <<>>
    /\ LET task == solver.tasks[i + 1]
           item == Head(task.agenda)
           rest == Tail(task.agenda)
           connections == solver.island_connections[item.index + 1]
           connected == get_connected_objects(solver.world.constraints[item.index + 1],
                                              solver.world)
       IN  solver' =
               CASE item.kind = "enter" ->
                        [solver EXCEPT !.tasks[i + 1].agenda =
                            IF solver.visited[item.index + 1] THEN rest
                            ELSE <<ClaimItem(item.index)>> \o rest]
                 [] item.kind = "claim" ->
                        [solver EXCEPT
                            !.visited[item.index + 1] = TRUE,
                            !.tasks[i + 1].island.objects = Append(@, item.index),
                            !.tasks[i + 1].agenda =
                                [k \in 1..Len(connections) |-> ConstraintItem(connections[k])]
                                    \o rest]
                 [] item.kind = "constraint" ->
                        [solver EXCEPT
                            !.tasks[i + 1].island.constraints = Append(@, item.index),
                            !.tasks[i + 1].agenda =
                                [k \in 1..Len(connected) |-> TestItem(connected[k])] \o rest]
                 [] item.kind = "test" ->
                        [solver EXCEPT !.tasks[i + 1].agenda =
                            IF solver.visited[item.index + 1] THEN rest
                            ELSE <<EnterItem(item.index)>> \o rest]
    /\ UNCHANGED notIslands

\* the traversal is over: the island is pushed under the lock if it has objects
TaskPush(i) ==
    /\ solver.phase = "building"
    /\ i < Len(solver.tasks)
    /\ solver.tasks[i + 1].pc = "dfs"
    /\ solver.tasks[i + 1].agenda = <<>>
    /\ solver' = [solver EXCEPT
                      !.tasks[i + 1].pc = "done",
                      !.island_indices = IF solver.tasks[i + 1].island.objects # <<>>
                                         THEN Append(@, solver.tasks[i + 1].island)
                                         ELSE @]
    /\ UNCHANGED notIslands

\* the loop has joined: build_islands returns the islands pushed
ReturnIslands ==
    /\ solver.phase = "building"
    /\ \A o \in 1..Len(solver.tasks) : solver.tasks[o].pc = "done"
    /\ solver' = [phase |-> "returned", world |-> solver.world,
                  islands |-> solver.island_indices]
    /\ UNCHANGED notIslands

IslandsNext ==
    \/ \E world \in IslandWorlds : BeginBuild(world)
    \/ \E i \in 0..MaxIslandObjects - 1 : TaskStart(i)
    \/ \E i \in 0..MaxIslandObjects - 1 : DfsStep(i)
    \/ \E i \in 0..MaxIslandObjects - 1 : TaskPush(i)
    \/ ReturnIslands

\* ------------------------------------------------------------------------
\* SystemScheduler (ecs/system/mod.rs)
\* ------------------------------------------------------------------------

MaxSystems == 3      \* add_system calls

\* SystemStage, in the order of its derived Ord
Stages == <<"Early", "Update", "Late">>

StageRank(stage) == CHOOSE r \in 1..Len(Stages) : Stages[r] = stage

\* SystemConfig: stage, enabled, and whether fixed_timestep is Some
SystemConfigs ==
    [stage : {Stages[r] : r \in 1..Len(Stages)}, enabled : BOOLEAN, fixed_timestep : BOOLEAN]

\* PhysicsBridgeSystem::config()
PhysicsBridgeConfig == [stage |-> "Early", enabled |-> TRUE, fixed_timestep |-> TRUE]

\* Vec::sort_by_key(|(_, config)| config.stage): a stable sort
RECURSIVE InsertByStage(_, _)
InsertByStage(sorted, entry) ==
    IF sorted = <<>> THEN <<entry>>
    ELSE IF StageRank(entry.config.stage) < StageRank(Head(sorted).config.stage)
         THEN <<entry>> \o sorted
         ELSE <<Head(sorted)>> \o InsertByStage(Tail(sorted), entry)

RECURSIVE SortByStage(_)
SortByStage(systems) ==
    IF systems = <<>> THEN <<>>
    ELSE InsertByStage(SortByStage(SubSeq(systems, 1, Len(systems) - 1)), systems[Len(systems)])

\* an add_system that pushes and leaves the list as it is
PushOnly(systems, system, config) == Append(systems, [system |-> system, config |-> config])

add_system(systems, system, config) ==
    SortByStage(Append(systems, [system |-> system, config |-> config]))

\* SystemScheduler::update: the systems whose update ran, in the order they ran;
\* a fixed timestep changes nothing
RECURSIVE RunSystems(_)
RunSystems(systems) ==
    IF systems = <<>> THEN <<>>
    ELSE IF Head(systems).config.enabled
         THEN IF Head(systems).config.fixed_timestep
              THEN <<Head(systems).system>> \o RunSystems(Tail(systems))
              ELSE <<Head(systems).system>> \o RunSystems(Tail(systems))
         ELSE RunSystems(Tail(systems))

SchedulerInit ==
    /\ scheduler = [systems |-> <<>>, added |-> 0]
    /\ lastSchedule = [op |-> "new"]

\* World::add_system: the n-th system added is system n
AddSystem(config) ==
    /\ scheduler.added < MaxSystems
    /\ scheduler' = [systems |-> add_system(scheduler.systems, scheduler.added, config),
                     added |-> scheduler.added + 1]
    /\ lastSchedule' = [op |-> "add_system"]
    /\ UNCHANGED notScheduler

SchedulerUpdate ==
    /\ lastSchedule' = [op |-> "update", ran |-> RunSystems(scheduler.systems)]
    /\ UNCHANGED <<scheduler, notScheduler>>

SchedulerNext ==
    \/ \E config \in SystemConfigs : AddSystem(config)
    \/ SchedulerUpdate

\* the CPU-side physics structures as constructed
CpuInit ==
    /\ SpatialInit
    /\ CollisionInit
    /\ WorldInit
    /\ SchedulerInit
    /\ IslandsInit


\* the pool of a system in which only the MemoryAllocator is exercised
PoolIdle ==
    /\ pool = NewPool(MIN_POOL_SIZE)
    /\ device = <<>>
    /\ held = <<>>
    /\ lastPool = [op |-> "none"]

InitAlloc == AllocInit /\ PoolIdle /\ GpuInit /\ BridgeInit /\ CpuInit

InitPool == PoolInit /\ AllocInit /\ GpuInit /\ BridgeInit /\ CpuInit

SpecAlloc == InitAlloc /\ [][AllocNext]_vars

SpecPool == InitPool /\ [][PoolNext]_vars

\* GpuPhysicsSystem::new: a BufferPool of initial_pool_size, nothing allocated
InitGpu ==
    /\ GpuInit
    /\ pool = NewPool(InitialPoolSize)
    /\ device = <<>>
    /\ held = <<>>
    /\ lastPool = [op |-> "none"]
    /\ AllocInit
    /\ BridgeInit
    /\ CpuInit

SpecGpu == InitGpu /\ [][GpuNext]_vars

InitGpuTeardown == InitGpu

SpecGpuTeardown == InitGpuTeardown /\ [][GpuTeardownNext]_vars


\* the bridge starts over a GpuPhysicsSystem just constructed
InitBridge == InitGpu

SpecBridge == InitBridge /\ [][BridgeNext]_vars

\* a SpatialHash just constructed, driven by insert and clear
InitSpatial == InitAlloc

SpecSpatial == InitSpatial /\ [][SpatialNext]_vars

\* a ParallelBroadPhase just constructed, driven by update
InitParallel == InitAlloc

SpecParallel == InitParallel /\ [][ParallelNext]_vars

\* detect_collision applied to pairs of rigid bodies
InitCollision == InitAlloc

SpecCollision == InitCollision /\ [][CollisionNext]_vars

\* a PhysicsWorld just constructed, driven by its public operations
InitWorld == InitAlloc

SpecWorld == InitWorld /\ [][WorldNext]_vars

\* a SystemScheduler just constructed, driven by add_system and update
InitScheduler == InitAlloc

SpecScheduler == InitScheduler /\ [][SchedulerNext]_vars

\* an IslandSolver about to build the islands of a world
InitIslands == InitAlloc

SpecIslands == InitIslands /\ [][IslandsNext]_vars

InitAllocDrop == InitAlloc

SpecAllocDrop == InitAllocDrop /\ [][AllocDropNext]_vars


\* ------------------------------------------------------------------------
\* Properties of the MemoryAllocator
\* ------------------------------------------------------------------------

AllChunks == chunks[0]

LiveIn(memory) == SelectSeq(live, LAMBDA b : b.memory = memory)

RegionSizes(regions) == [i \in 1..Len(regions) |-> regions[i][2]]

BlockSizes(blocks) == [i \in 1..Len(blocks) |-> blocks[i].size]

\* C2: after every allocate and every free, the sizes of a pool's free regions
\* plus the sizes of its currently allocated blocks add up to the sizes of
\* its chunks.
C2_Conservation ==
    \A c \in 1..Len(AllChunks) :
        SumSeq(RegionSizes(AllChunks[c].free_regions))
            + SumSeq(BlockSizes(LiveIn(AllChunks[c].memory))) = AllChunks[c].size

SortedByOffset(regions) ==
    \A i \in 1..Len(regions) - 1 : regions[i][1] <= regions[i + 1][1]

NoAdjacent(regions) ==
    \A i, j \in 1..Len(regions) : i # j => regions[i][1] + regions[i][2] # regions[j][1]

\* C4: after free returns, the chunk's free-region list is sorted by offset
\* and holds no two regions r, s with r.offset + r.size = s.offset.
C4_FreeCoalesces ==
    lastAlloc.op = "free" =>
        LET regions == chunks[lastAlloc.block.memory_type_index][lastAlloc.chunk].free_regions
        IN  SortedByOffset(regions) /\ NoAdjacent(regions)

\* C5: every offset returned by allocate(size, alignment) is a multiple of
\* alignment, and [offset, offset + size) lies inside the free region the
\* allocation was taken from.
C5_AlignedInsideRegion ==
    lastAlloc.op = "allocate" =>
        /\ lastAlloc.block.offset % lastAlloc.alignment = 0
        /\ lastAlloc.region[1] <= lastAlloc.block.offset
        /\ lastAlloc.block.offset + lastAlloc.block.size
               <= lastAlloc.region[1] + lastAlloc.region[2]

\* ------------------------------------------------------------------------
\* Properties of the MemoryPool
\* ------------------------------------------------------------------------

\* C3: every block of the pool, handed out or free, lies inside the
\* device-memory chunk it belongs to: offset + size <= the chunk's size, also
\* after free has coalesced neighbouring blocks.
C3_WithinChunk ==
    \A i \in 1..Len(pool.blocks) :
        pool.blocks[i].offset + pool.blocks[i].size <= device[pool.blocks[i].memory]

\* C6: an allocate that finds no fitting free block makes one device
\* allocation of max(size, block_size) bytes, block_size within [1 MiB, 256 MiB],
\* returns offset 0 of it, and records the remaining bytes of the chunk as a
\* free region.
C6_RemainderRecorded ==
    (lastPool.op = "allocate" /\ lastPool.new_chunk) =>
        /\ MIN_POOL_SIZE <= pool.block_size /\ pool.block_size <= MAX_POOL_SIZE
        /\ device[lastPool.memory] = Max(lastPool.size, pool.block_size)
        /\ lastPool.offset = 0
        /\ device[lastPool.memory] > lastPool.size =>
               \E i \in 1..Len(pool.blocks) :
                   /\ pool.blocks[i].memory = lastPool.memory
                   /\ pool.blocks[i].is_free
                   /\ pool.blocks[i].offset = lastPool.size
                   /\ pool.blocks[i].size = device[lastPool.memory] - lastPool.size

PoolPanicReached == lastPool.op = "panic"

\* ------------------------------------------------------------------------
\* Properties of the GpuPhysicsSystem
\* ------------------------------------------------------------------------

\* C1: the half update_particles writes through its mapped pointer is never
\* the target of a dispatch that was submitted and whose fence has not yet
\* signalled, in particular for step(); update_particles().
C1_NonAliasing ==
    (lastGpu.op = "update_particles" /\ lastGpu.result = "Ok") =>
        lastGpu.written \notin lastGpu.in_flight_before

\* C7: update_particles(D); step(); get_particle_data() returns as many
\* particles as D, each the result of one integration step on the particle of
\* D at the same place.
C7_StepIntegrates ==
    (lastGpu.op = "get_particle_data" /\ lastGpu.result = "Ok" /\ lastGpu.framed) =>
        /\ Len(lastGpu.returned) = Len(lastGpu.expected)
        /\ lastGpu.returned = lastGpu.expected

\* the calls that need an initialized system
NeedInitialized == {"step", "update_particles", "get_particle_data", "resize"}

\* C8: is_initialized becomes true only when initialize returns Ok, and step,
\* update_particles, get_particle_data and resize on a system that is not
\* initialized return InvalidOperation and change nothing.
C8_StateMachine ==
    /\ (gpu.state.is_initialized /\ ~lastGpu.was_initialized) =>
           (lastGpu.op = "initialize" /\ lastGpu.result = "Ok")
    /\ (lastGpu.op \in NeedInitialized /\ ~lastGpu.was_initialized) =>
           (lastGpu.result = "InvalidOperation" /\ ~lastGpu.changed)

\* the errors the taxonomy calls recoverable
RecoverableErrors == {"OutOfMemory", "BufferOverflow", "SynchronizationError"}

\* C9: a recoverable error increments recovery_attempts by one, up to
\* max_recovery_attempts, which it never exceeds; at max_recovery_attempts
\* needs_reset is true.
C9_RecoveryBounded ==
    /\ gpu.state.recovery_attempts <= gpu.max_recovery_attempts
    /\ lastGpu.result \in RecoverableErrors =>
           gpu.state.recovery_attempts
               = Min(lastGpu.attempts_before + 1, gpu.max_recovery_attempts)
    /\ gpu.state.recovery_attempts = gpu.max_recovery_attempts => gpu.state.needs_reset

\* ------------------------------------------------------------------------
\* Properties of the PhysicsBridgeSystem
\* ------------------------------------------------------------------------

\* C10: in update, the particle pushed for an enabled entity e occupies slot
\* e.index() of the snapshot, and what is written back to e's transform and
\* physics components is the returned particle of e's own slot, also when
\* lower-indexed entities are disabled, lack the components or were destroyed.
C10_SlotIsIndex ==
    lastBridge.op = "update" =>
        \A k \in 1..Len(lastBridge.pushed) :
            LET e == lastBridge.pushed[k]
            IN  /\ e = k - 1
                /\ (lastBridge.result = "Ok" /\ k <= Len(lastBridge.returned)) =>
                       /\ ecs.physics[e + 1].position = lastBridge.returned[k].position
                       /\ ecs.physics[e + 1].velocity = lastBridge.returned[k].velocity
                       /\ ecs.transforms[e + 1].position = lastBridge.returned[k].position

\* C11: when sync_to_gpu or sync_from_gpu fails during update, no transform
\* position and no physics position or velocity differs, on return, from its
\* value before the update.
C11_FailureSkipsFrame ==
    (lastBridge.op = "update" /\ lastBridge.result # "Ok") => Motion(ecs) = lastBridge.before

\* an update whose fence wait failed after it had visited a moving entity
C11_Witness ==
    /\ lastBridge.op = "update"
    /\ lastBridge.result = "SynchronizationError"
    /\ \E k \in 1..Len(lastBridge.pushed) : ecs.physics[lastBridge.pushed[k] + 1].velocity = 1

\* ------------------------------------------------------------------------
\* Properties of the SpatialHash
\* ------------------------------------------------------------------------

Overlap(a, b) == \A d \in 1..3 : a.min[d] <= b.max[d] /\ b.min[d] <= a.max[d]

Inserted == {o \in Objects : boxes.aabb[o] # NoBox}

\* C12: after inserts on distinct indices, rebuilds included, every two
\* inserted objects whose bounds overlap are a pair of get_potential_pairs.
C12_OverlapsArePairs ==
    boxes.distinct =>
        \A i, j \in Inserted :
            (i < j /\ Overlap(boxes.aabb[i], boxes.aabb[j])) => <<i, j>> \in get_potential_pairs(sh)

SharingACell(s) ==
    {<<i, j>> \in Objects \X Objects :
        i < j /\ \E c \in DOMAIN s.grid : s.grid[c][i] > 0 /\ s.grid[c][j] > 0}

\* C13: get_potential_pairs returns exactly the pairs (i, j), i < j, of
\* objects listed in a common cell: no pair (i, i), no pair sharing no cell.
\* Stated for the hashes no index was inserted into twice.
C13_PairsShareACell == boxes.distinct => get_potential_pairs(sh) = SharingACell(sh)

\* C14: when insert(i, min, max) returns, i is listed in exactly the cells
\* between position_to_cell(min) and position_to_cell(max), once in each, and
\* in none of the cells it was listed in before.
C14_ListedInOverlappedCells ==
    lastSpatial.op = "insert" =>
        LET i == lastSpatial.object_index
            cells == CellsBetween(lastSpatial.min_cell, lastSpatial.max_cell)
        IN  /\ CellsListing(sh, i) = {cells[k] : k \in 1..Len(cells)}
            /\ \A c \in DOMAIN sh.grid : sh.grid[c][i] <= 1

\* C15: whatever the interleaving of the inserts of one update, the pairs it
\* returns are those of inserting the same bounds one after the other.
C15_ParallelEqualsSequential ==
    lastSpatial.op = "update" => lastSpatial.pairs = lastSpatial.sequential

\* ------------------------------------------------------------------------
\* Properties of detect_collision
\* ------------------------------------------------------------------------

UnitBoxAt(position) == RigidBody(position, Zero3, 1, 1)

\* how far the two boxes' projections on an axis overlap: the shorter of the
\* two ways of sliding them apart along it
OverlapOn(obj1, obj2, axis) ==
    LET a == project_box(obj1.position, obj1.bounding_box, axis)
        b == project_box(obj2.position, obj2.bounding_box, axis)
    IN  Min(a.max - b.min, b.max - a.min)

\* C18: for the unit boxes at (0,0,0) and (1,0,0), in either order of the
\* arguments, detect_collision returns a manifold of penetration 1 and normal
\* (1,0,0) or (-1,0,0); a returned penetration is the smallest overlap of the
\* boxes over the six axes.
C18_LeastPenetration ==
    narrow.op = "detect_collision" =>
        /\ {narrow.obj1, narrow.obj2} = {UnitBoxAt(<<0, 0, 0>>), UnitBoxAt(<<1, 0, 0>>)} =>
               /\ narrow.result.some
               /\ narrow.result.penetration = 1
               /\ narrow.result.normal \in {<<1, 0, 0>>, <<-1, 0, 0>>}
        /\ narrow.result.some =>
               /\ \A k \in 1..Len(Axes) :
                      narrow.result.penetration <= OverlapOn(narrow.obj1, narrow.obj2, Axes[k])
               /\ \E k \in 1..Len(Axes) :
                      narrow.result.penetration = OverlapOn(narrow.obj1, narrow.obj2, Axes[k])

\* ------------------------------------------------------------------------
\* Properties of the PhysicsWorld and its solvers
\* ------------------------------------------------------------------------

Elements(s) == {s[k] : k \in 1..Len(s)}

IsSingleton(islands, o) == \E k \in 1..Len(islands) : islands[k].objects = <<o>>

\* C16: build_islands returns one singleton island per object of a world
\* without constraints; with the one DistanceConstraint between objects 0 and
\* 1 it returns one island of the objects 0 and 1 that holds the constraint,
\* and a singleton island for every other object.
C16_IslandPartition ==
    lastWorld.op = "build_islands" =>
        LET n == Len(pw.objects)
            islands == lastWorld.islands
        IN  /\ pw.constraints = <<>> =>
                   Len(islands) = n /\ \A o \in 0..n - 1 : IsSingleton(islands, o)
            /\ (n >= 2 /\ pw.constraints = <<DistanceConstraint(0, 1, 3)>>) =>
                   /\ Len(islands) = n - 1
                   /\ \E k \in 1..Len(islands) :
                          /\ Elements(islands[k].objects) = {0, 1}
                          /\ 0 \in Elements(islands[k].constraints)
                   /\ \A o \in 2..n - 1 : IsSingleton(islands, o)

NotCollision(c) == c.kind # "Collision"

AtRest(world) ==
    /\ Len(world.objects) = 2
    /\ world.gravity = Zero3
    /\ \A o \in 1..2 : world.objects[o].velocity = Zero3 /\ world.objects[o].acceleration = Zero3
    /\ world.constraints =
           <<DistanceConstraint(0, 1, Length(Sub3(world.objects[2].position,
                                                  world.objects[1].position)))>>

\* C19: one solve_constraints call on two bodies at rest, joined at their
\* rest distance, leaves both positions as they were, whatever num_iterations.
C19_RestIsFixed ==
    (lastWorld.op = "solve_constraints" /\ AtRest(lastWorld.before)) =>
        /\ ~lastWorld.panicked
        /\ \A o \in 1..2 : pw.objects[o].position = lastWorld.before.objects[o].position

\* a solve of two bodies at rest three units apart
C19_Witness ==
    /\ lastWorld.op = "solve_constraints"
    /\ AtRest(lastWorld.before)
    /\ lastWorld.before.objects[1].position # lastWorld.before.objects[2].position
    /\ pw.objects[2].position = lastWorld.before.objects[2].position

\* ------------------------------------------------------------------------
\* Properties of the SystemScheduler
\* ------------------------------------------------------------------------

ConfigOf(system) ==
    (CHOOSE entry \in Elements(scheduler.systems) : entry.system = system).config

\* C20: whatever the order of the add_system calls, update runs each enabled
\* system once and no disabled one, every Early system before every Update
\* system and every Update system before every Late one.
C20_StageOrder ==
    lastSchedule.op = "update" =>
        LET ran == lastSchedule.ran
        IN  /\ \A a, b \in 1..Len(ran) :
                   a < b => StageRank(ConfigOf(ran[a]).stage) <= StageRank(ConfigOf(ran[b]).stage)
            /\ \A a, b \in 1..Len(ran) : a # b => ran[a] # ran[b]
            /\ Elements(ran) = {entry.system : entry \in
                                   {e \in Elements(scheduler.systems) : e.config.enabled}}

\* an update after a Late system was added before the PhysicsBridgeSystem,
\* both enabled, and a disabled system was added as well
C20_Witness ==
    /\ lastSchedule.op = "update"
    /\ \E late, early \in Elements(lastSchedule.ran) :
           /\ late < early
           /\ ConfigOf(late).stage = "Late"
           /\ ConfigOf(early) = PhysicsBridgeConfig
    /\ \E e \in Elements(scheduler.systems) : ~e.config.enabled

\* ------------------------------------------------------------------------
\* Properties of the MemoryAllocator's regions
\* ------------------------------------------------------------------------

\* the byte ranges [o1, o1 + s1) and [o2, o2 + s2) share no byte
Apart(o1, s1, o2, s2) == o1 + s1 <= o2 \/ o2 + s2 <= o1

\* C26: no two blocks allocated at the same time overlap in the same chunk,
\* no free region overlaps an allocated block or another free region, and the
\* remainder allocate puts back lies inside the region it was split from.
C26_NoOverlap ==
    /\ \A i, j \in 1..Len(live) :
           (i < j /\ live[i].memory = live[j].memory) =>
               Apart(live[i].offset, live[i].size, live[j].offset, live[j].size)
    /\ \A c \in 1..Len(AllChunks) :
           LET regions == AllChunks[c].free_regions
           IN  /\ \A i, j \in 1..Len(regions) :
                      i < j => Apart(regions[i][1], regions[i][2], regions[j][1], regions[j][2])
               /\ \A i \in 1..Len(regions), k \in 1..Len(live) :
                      live[k].memory = AllChunks[c].memory =>
                          Apart(regions[i][1], regions[i][2], live[k].offset, live[k].size)
    /\ (lastAlloc.op = "allocate" /\ ~lastAlloc.new_chunk) =>
           \A c \in 1..Len(AllChunks) : \A i \in 1..Len(AllChunks[c].free_regions) :
               LET r == AllChunks[c].free_regions[i]
               IN  (AllChunks[c].memory = lastAlloc.block.memory
                      /\ r[1] = lastAlloc.block.offset + lastAlloc.block.size) =>
                       r[1] + r[2] <= lastAlloc.region[1] + lastAlloc.region[2]


\* C22: when a MemoryAllocator is dropped, a leak warning is logged for every
\* chunk that still has allocated blocks, also for a chunk with no free region
\* at all, none for a chunk whose bytes are all free, and every chunk's device
\* memory is freed, the drop raising no error.
C22_DropWarnsLeaks ==
    lastAlloc.op \in {"drop", "drop_panic"} =>
        /\ lastAlloc.op = "drop"
        /\ Len(lastAlloc.freed) = Len(lastAlloc.chunks)
        /\ \A c \in 1..Len(lastAlloc.freed) :
               LET chunk == lastAlloc.chunks[c]
                   allocated == SelectSeq(lastAlloc.live, LAMBDA b : b.memory = chunk.memory)
               IN  /\ lastAlloc.freed[c] = chunk.memory
                   /\ allocated # <<>> => lastAlloc.warned[c]
                   /\ (allocated = <<>> /\ unfreed_size(chunk) = 0) => ~lastAlloc.warned[c]


\* ------------------------------------------------------------------------
\* Properties of the MemoryPool's free list
\* ------------------------------------------------------------------------

\* C29: every index stored in free_blocks is smaller than blocks.len(), refers
\* to a block whose is_free flag is true and occurs only once; in particular a
\* block that allocate handed out again is no longer listed.
C29_FreeListValid ==
    LET list == pool.free_blocks
    IN  /\ \A k \in 1..Len(list) :
               /\ list[k] < Len(pool.blocks)
               /\ pool.blocks[list[k] + 1].is_free
        /\ \A k, l \in 1..Len(list) : k < l => list[k] # list[l]


\* ------------------------------------------------------------------------
\* Properties of the GpuPhysicsSystem's teardown
\* ------------------------------------------------------------------------

\* C21: at teardown, by drop alone or by cleanup() followed by drop, each
\* buffer half's memory is unmapped once and before its chunk is freed, and
\* the pair's buffers and chunks are destroyed and freed once: nothing is
\* unmapped, destroyed or freed after it has been released.
C21_TeardownOnce ==
    lastGpu.op = "drop" =>
        /\ vk.faults = {}
        /\ gpu.particle_buffers.some =>
               /\ {gpu.particle_buffers.front.memory, gpu.particle_buffers.back.memory}
                      \subseteq vk.freed \ vk.mapped
               /\ {gpu.particle_buffers.front.buffer, gpu.particle_buffers.back.buffer}
                      \cap vk.live_buffers = {}


\* the buffers of the pair the system refers to
PairBuffers ==
    IF gpu.particle_buffers.some
    THEN {gpu.particle_buffers.front.buffer, gpu.particle_buffers.back.buffer}
    ELSE {}

\* C27: when resize returns an error after it has freed the old buffer pair,
\* the system no longer refers to the freed buffers, so that no later resize,
\* cleanup or drop destroys, frees or unmaps them a second time.
C27_NoStalePair ==
    /\ (lastGpu.op = "resize" /\ lastGpu.result # "Ok") => PairBuffers \subseteq vk.live_buffers
    /\ "destroy of a destroyed buffer" \notin vk.faults


\* ------------------------------------------------------------------------
\* Properties of the bridge's cached particle data
\* ------------------------------------------------------------------------

\* C28: over consecutive successful frames of update, the particle sent for an
\* enabled entity carries the position and velocity written back to its
\* physics component in the frame before: after a successful frame, the cached
\* particle data the next frame pushes is the component's state.
C28_CacheIsCurrent ==
    (lastBridge.op = "update" /\ lastBridge.result = "Ok") =>
        \A i \in 0..Len(ecs.entities) - 1 :
            (Fetched(ecs, i) /\ ecs.physics[i + 1].enabled /\ i < Len(lastBridge.returned)) =>
                /\ ecs.physics[i + 1].particle_data.some
                /\ ParticleOf(ecs.physics[i + 1])
                       = [position |-> ecs.physics[i + 1].position,
                          velocity |-> ecs.physics[i + 1].velocity]



\* ------------------------------------------------------------------------
\* The manifold of a synthesized collision constraint
\* ------------------------------------------------------------------------

\* C25: every collision constraint synthesized in a sub-step for a pair
\* (i, j) carries the manifold that detect_collision returned for the two
\* objects as the sub-step had moved them, for the pairs the broad phase can
\* have handed over in an update that synthesized constraints
C25_CarriesManifold ==
    (lastWorld.op = "update" /\ lastWorld.synthesized > 0) =>
        \A delta_time \in DeltaTimes :
            LET moved == parallel_update_positions(lastWorld.before, delta_time)
            IN  \A potential_collisions \in PotentialPairs(Len(moved)) :
                    LET synthesized == parallel_collision_detection(moved, potential_collisions)
                    IN  \A k \in 1..Len(synthesized) :
                            Len(synthesized) = lastWorld.synthesized =>
                            synthesized[k].manifold =
                                detect_collision(moved[synthesized[k].object1_index + 1],
                                                 moved[synthesized[k].object2_index + 1])

\* ------------------------------------------------------------------------
\* The merge of the island results
\* ------------------------------------------------------------------------

\* the state the sub-world of its own island group solved for an object
SolvedClone(world, islands, delta_time, object) ==
    LET grouped == group_islands(islands)
        g == CHOOSE g \in 1..Len(grouped) :
                 \E i \in 1..Len(grouped[g]) : object \in Elements(grouped[g][i].objects)
        cloned == Flatten([i \in 1..Len(grouped[g]) |-> grouped[g][i].objects])
        slot == CHOOSE p \in 1..Len(cloned) : cloned[p] = object
    IN  solve_island_group(LocalWorld(world, grouped[g]), delta_time, world.num_iterations)[slot]

\* C24: after solve_constraints, for every island I and every k, the object
\* at I.objects[k] holds the state solved for the clone of that same object,
\* for the islands of one of the orders the parallel build can take
C24_MergeKeepsEveryIsland ==
    (lastWorld.op = "solve_constraints" /\ ~lastWorld.panicked) =>
        \E order \in Orders(Len(lastWorld.before.objects)), delta_time \in DeltaTimes :
            LET islands == build_islands(lastWorld.before, order)
            IN  \A i \in 1..Len(islands) : \A k \in 1..Len(islands[i].objects) :
                    pw.objects[islands[i].objects[k] + 1] =
                        SolvedClone(lastWorld.before, islands, delta_time, islands[i].objects[k])


\* ------------------------------------------------------------------------
\* Properties of the parallel island build
\* ------------------------------------------------------------------------

\* the places at which an object index stands in a list of islands
IslandPlaces(islands, object) ==
    {<<i, k>> \in (1..Len(islands)) \X (1..MaxIslandObjects + 1) :
        k <= Len(islands[i].objects) /\ islands[i].objects[k] = object}

\* C23: under every interleaving of the parallel traversals, every object
\* index is in exactly one of the islands build_islands returns, once, and
\* at no moment have two traversals claimed the same object
C23_EachObjectOnce ==
    /\ solver.phase = "returned" =>
           \A object \in 0..Len(solver.world.objects) - 1 :
               Cardinality(IslandPlaces(solver.islands, object)) = 1
    /\ solver.phase = "building" =>
           \A object \in 0..Len(solver.world.objects) - 1 :
               Cardinality(IslandPlaces(
                   solver.island_indices \o
                       [o \in 1..Len(solver.tasks) |->
                           IF solver.tasks[o].pc = "done" THEN NewIsland
                           ELSE solver.tasks[o].island], object)) <= 1

\* a build over three objects chained by two constraints in which the
\* traversal of the last object pushed its island first
C23_Witness ==
    /\ solver.phase = "returned"
    /\ Len(solver.world.objects) = 3
    /\ Len(solver.world.constraints) = 2
    /\ solver.islands[1].objects = <<2>>


\* ------------------------------------------------------------------------
\* The constraints of a sub-world
\* ------------------------------------------------------------------------

\* the global indices of the objects cloned into the sub-world of a group
ClonedObjects(island_group) ==
    Flatten([i \in 1..Len(island_group) |-> island_group[i].objects])

\* slot `index` of the sub-world exists and holds the clone of global object `index`
AddressesItsClone(island_group, index) ==
    /\ index < Len(ClonedObjects(island_group))
    /\ ClonedObjects(island_group)[index + 1] = index

\* C30: in the sub-world solve_constraints builds for an island group, every
\* cloned constraint addresses the clones of the objects it addressed in the
\* global world, and none of its indices is outside the sub-world's objects
C30_ClonesAddressClones ==
    lastWorld.op = "solve_constraints" =>
        \A order \in Orders(Len(lastWorld.before.objects)) :
            LET grouped == group_islands(build_islands(lastWorld.before, order))
            IN  \A g \in 1..Len(grouped) :
                    LET constraints == LocalWorld(lastWorld.before, grouped[g]).constraints
                    IN  \A k \in 1..Len(constraints) :
                            /\ AddressesItsClone(grouped[g], constraints[k].object1_index)
                            /\ AddressesItsClone(grouped[g], constraints[k].object2_index)

====
